---- MODULE Spec2Model ----
(***************************************************************************)
(* Model of algo_trading_system: core/backtest_engine.py (BacktestEngine), *)
(* strategies/sma_crossover_strategy.py (SmaCrossoverStrategy),            *)
(* brokers/zerodha/kite_connect.py (KiteConnectAPI),                       *)
(* brokers/upstox/upstox_api.py (UpstoxAPI),                               *)
(* data_management/trade_logger.py (TradeLogger) and the live-trading flow *)
(* of main.py (run_live_trading_flow, square_off_all_mis_positions).       *)
(*                                                                         *)
(* Numbers.  The engine computes with Python floats; the model computes    *)
(* the same expressions exactly, in fixed point:                           *)
(*   - a price is an integer number of price units, PriceUnit per unit of  *)
(*     currency (PriceUnit = 100 * PriceDen, so that a percentage of an    *)
(*     input price and the mean of up to MaxPyramid fills are integers);   *)
(*   - an amount of money (capital, trade value, brokerage, pnl) is an     *)
(*     integer number of money units, 100 per price unit (so that a        *)
(*     percentage of a trade value is an integer).                         *)
(* None.  Python's None is modelled by 0 in the optional numeric fields    *)
(* (sl_price, tp_price, stop_loss, target, the percentages): the code      *)
(* tests these fields by truthiness only, which None and 0 share.          *)
(* positions is the dict keyed by the one symbol: the empty sequence or a  *)
(* sequence holding the one position record.                               *)
(* Exceptions.  A filled BUY raises inside _execute_signal (lines 233 and  *)
(* 244) after it has updated capital and position; run() does not catch   *)
(* it, so the run ends there (pc = "raised") with the engine's fields as   *)
(* they are.  run() may be entered again on the same engine.               *)
(* Specifications.  Spec is run() on a constructed engine; SpecApi is      *)
(* _execute_signal and _check_sl_tp called one at a time, in any order;    *)
(* SpecQty is SpecApi on an engine built with any qty_per_trade; SpecLoad  *)
(* is the constructor (_load_data) on any table, then run(); SpecSma is    *)
(* BaseStrategy.run_backtest called repeatedly on one                      *)
(* SmaCrossoverStrategy; SpecKite is the methods of one KiteConnectAPI     *)
(* called in any order against any SDK answers; SpecLogger is the          *)
(* TradeLogger constructor, then log_trade and update_trade_status in any  *)
(* order.  SpecSmaParams is SmaCrossoverStrategy(...) on any params, then  *)
(* generate_signals; SpecUpstox is login and the guarded operations of one *)
(* UpstoxAPI in any order; SpecSquareOff is one call of                    *)
(* square_off_all_mis_positions on any broker; SpecLive is                 *)
(* run_live_trading_flow from its first line to its last.                  *)
(***************************************************************************)
EXTENDS Integers, Sequences, FiniteSets, TLC

VARIABLES cfg, source, data, strategy, current_capital, positions, trades,
          total_trades, winning_trades, losing_trades,
          log, summaries, outcomes, pc, bar, runs, calls, last,
          kite, tlog, upstox, live

vars == <<cfg, source, data, strategy, current_capital, positions, trades,
          total_trades, winning_trades, losing_trades,
          log, summaries, outcomes, pc, bar, runs, calls, last,
          kite, tlog, upstox, live>>

(* ----------------------------- bounds ---------------------------------- *)
MaxBars == 2
MaxRuns == 2
MaxCalls == 3
MaxPyramid == 2
MaxRows == 3

(* --------------------------- fixed point ------------------------------- *)
RECURSIVE Gcd(_, _)
Gcd(a, b) == IF b = 0 THEN a ELSE Gcd(b, a % b)

Lcm(a, b) == (a * b) \div Gcd(a, b)

RECURSIVE LcmUpTo(_)
LcmUpTo(n) == IF n <= 1 THEN 1 ELSE Lcm(n, LcmUpTo(n - 1))

PriceDen == LcmUpTo(MaxPyramid)

PriceUnit == 100 * PriceDen

Price(c) == c * PriceUnit

Money(c) == c * PriceUnit * 100

None == 0

(* ------------------------------ inputs --------------------------------- *)
Bar(h, l, c) == [high |-> Price(h), low |-> Price(l), close |-> Price(c)]

BarSet == { Bar(102, 99, 100), Bar(105, 101, 103),
            Bar(103, 95, 98), Bar(106, 96, 100) }

RECURSIVE SeqsUpTo(_, _)
SeqsUpTo(S, n) ==
    IF n = 0 THEN { <<>> }
    ELSE LET shorter == SeqsUpTo(S, n - 1)
         IN  shorter \cup { Append(s, x) : s \in { t \in shorter : Len(t) = n - 1 }, x \in S }

DataSet == SeqsUpTo(BarSet, MaxBars)

Sig(a, p, sl, tp, r) ==
    [action |-> a, price |-> p, sl_price |-> sl, tp_price |-> tp, reason |-> r]

NoSignal == Sig("None", None, None, None, "")

SignalSet ==
    { NoSignal, Sig("HOLD", None, None, None, "") }
    \cup { Sig("BUY", None, sl, tp, "") : sl \in {None, Price(98)}, tp \in {None, Price(104)} }
    \cup { Sig("BUY", Price(101), Price(98), Price(104), "") }
    \cup { Sig("SELL", None, None, None, ""), Sig("SELL", None, None, None, "SMA_CROSS_DOWN") }

FeeSet == { [brokerage_percent |-> 0, slippage_percent |-> 0],
            [brokerage_percent |-> 1, slippage_percent |-> 1] }

RiskSet == { [stop_loss_percent |-> None, target_percent |-> None],
             [stop_loss_percent |-> 2, target_percent |-> 4] }

CapitalSet == { 100, 1500, 2500, 3500 }

(* __init__: max_pyramid_entries is the argument only if pyramiding is allowed *)
Construct(capital, fee, risk, qty, allow, maxArg) ==
    [initial_capital     |-> Money(capital),
     stop_loss_percent   |-> risk.stop_loss_percent,
     target_percent      |-> risk.target_percent,
     brokerage_percent   |-> fee.brokerage_percent,
     slippage_percent    |-> fee.slippage_percent,
     qty_per_trade       |-> qty,
     allow_pyramiding    |-> allow,
     max_pyramid_arg     |-> maxArg,
     max_pyramid_entries |-> IF allow THEN maxArg ELSE 1]

CfgSet ==
    { Construct(c, f, r, 10, a, m) :
        c \in CapitalSet, f \in FeeSet, r \in RiskSet, a \in BOOLEAN, m \in 1..MaxPyramid }

(* __init__ stores qty_per_trade as given (line 61): the quantities a       *)
(* caller can construct an engine with, non-positive ones included          *)
QtySet == { 0 - 10, 0, 10 }

QtyCfgSet ==
    { Construct(1500, f, r, q, a, MaxPyramid) :
        f \in FeeSet, r \in RiskSet, q \in QtySet, a \in BOOLEAN }

(* run() asks the strategy only when flat, so it never reaches the         *)
(* pyramiding branch and never holds more than one entry: its              *)
(* configurations vary the rest                                            *)
RunCfgSet ==
    { c \in CfgSet : c.max_pyramid_arg = MaxPyramid /\ c.initial_capital <= Money(1500) }

(* --------------------------- pure helpers ------------------------------ *)
(* _calculate_brokerage: trade_value * (brokerage_percent / 100), in money units *)
CalculateBrokerage(c, trade_value) == (trade_value * c.brokerage_percent) \div 100

(* _apply_slippage, in price units *)
ApplySlippage(c, price, action) ==
    LET slippage_amount == (price * c.slippage_percent) \div 100
    IN  IF action = "BUY" THEN price + slippage_amount
        ELSE IF action = "SELL" THEN price - slippage_amount
        ELSE price

(* value in money units of qty at a price in price units *)
TradeValue(price, qty) == price * qty * 100

LogRec(a, s) == [action |-> a, status |-> s]

(* the engine's mutable fields, as one record *)
Eng == [current_capital |-> current_capital, positions |-> positions, trades |-> trades,
        total_trades |-> total_trades, winning_trades |-> winning_trades,
        losing_trades |-> losing_trades, log |-> log, raised |-> FALSE]

SetEng(e) ==
    /\ current_capital' = e.current_capital
    /\ positions' = e.positions
    /\ trades' = e.trades
    /\ total_trades' = e.total_trades
    /\ winning_trades' = e.winning_trades
    /\ losing_trades' = e.losing_trades
    /\ log' = e.log

ClosePositionZeroPnlWins(c, e, exit_price, ts, reason, status) ==
    LET pos       == e.positions[1]
        qty       == pos.qty
        brokerage == CalculateBrokerage(c, TradeValue(exit_price, qty))
        pnl       == TradeValue(exit_price - pos.avg_price, qty) - brokerage
    IN  [e EXCEPT !.current_capital = @ + TradeValue(exit_price, qty) - brokerage,
                  !.winning_trades  = IF pnl >= 0 THEN @ + 1 ELSE @,
                  !.losing_trades   = IF pnl >= 0 THEN @ ELSE @ + 1,
                  !.total_trades    = @ + 1,
                  !.trades = Append(@, [entry_time  |-> pos.entry_time,
                                        exit_time   |-> ts,
                                        entry_price |-> pos.avg_price,
                                        exit_price  |-> exit_price,
                                        qty         |-> qty,
                                        pnl         |-> pnl,
                                        exit_reason |-> reason]),
                  !.positions = <<>>,
                  !.log = Append(@, LogRec("SELL", status))]

(* lines 281-298: _check_sl_tp closes the whole position at exit_price      *)
ClosePosition(c, e, exit_price, ts, reason, status) ==
    LET pos       == e.positions[1]
        qty       == pos.qty
        brokerage == CalculateBrokerage(c, TradeValue(exit_price, qty))
        pnl       == TradeValue(exit_price - pos.avg_price, qty) - brokerage
    IN  [e EXCEPT !.current_capital = @ + TradeValue(exit_price, qty) - brokerage,
                  !.winning_trades  = IF pnl > 0 THEN @ + 1 ELSE @,
                  !.losing_trades   = IF pnl > 0 THEN @ ELSE @ + 1,
                  !.total_trades    = @ + 1,
                  !.trades = Append(@, [entry_time  |-> pos.entry_time,
                                        exit_time   |-> ts,
                                        entry_price |-> pos.avg_price,
                                        exit_price  |-> exit_price,
                                        qty         |-> qty,
                                        pnl         |-> pnl,
                                        exit_reason |-> reason]),
                  !.positions = <<>>,
                  !.log = Append(@, LogRec("SELL", status))]

(* ----------------------------- _load_data ------------------------------ *)
(* a row of the table: its timestamp and the columns the engine reads *)
Row(ts, b) == [timestamp |-> ts, high |-> b.high, low |-> b.low, close |-> b.close]

(* source: what the constructor is given to load the bars from.  kind is    *)
(* "missing_file" (a path pd.read_csv does not find), "invalid_type"        *)
(* (neither a str nor a DataFrame) or "frame" (a DataFrame, or a CSV file   *)
(* that was read); a frame has its rows in the order given, may lack a      *)
(* column that renames to 'timestamp' (has_timestamp), may hold timestamps  *)
(* pd.to_datetime refuses (parsable) and may lack one of open/high/low/     *)
(* close (has_ohlc); start_date and end_date are the constructor's window.  *)
Source(kind, rows, has_timestamp, parsable, has_ohlc, start_date, end_date) ==
    [kind |-> kind, rows |-> rows, has_timestamp |-> has_timestamp,
     parsable |-> parsable, has_ohlc |-> has_ohlc,
     start_date |-> start_date, end_date |-> end_date]

InWindowNoEnd(row, src) == row.timestamp >= src.start_date

(* line 133: (df.index >= self.start_date) & (df.index <= self.end_date) *)
InWindow(row, src) ==
    row.timestamp >= src.start_date /\ row.timestamp <= src.end_date

(* line 131: df.sort_index() with the default kind ('quicksort'), which     *)
(* pandas does not promise to be stable: every ordering of the rows by      *)
(* non-decreasing timestamp is a possible result                            *)
SortIndex(rows) ==
    LET n == Len(rows)
        Perms == { p \in [1..n -> 1..n] :
                     /\ \A i, j \in 1..n : i # j => p[i] # p[j]
                     /\ \A i, j \in 1..n :
                          i < j => rows[p[i]].timestamp <= rows[p[j]].timestamp }
    IN  { [i \in 1..n |-> rows[p[i]]] : p \in Perms }

(* lines 93-146: the frames _load_data can return (<<>> is the empty frame  *)
(* it returns after printing an ERROR line); no duplicate timestamp is      *)
(* dropped anywhere                                                         *)
LoadData(src) ==
    IF src.kind # "frame" THEN { <<>> }
    ELSE IF src.rows = <<>> THEN { <<>> }
    ELSE IF ~src.has_timestamp THEN { <<>> }
    ELSE IF ~src.parsable THEN { <<>> }
    ELSE LET df == { SelectSeq(sorted, LAMBDA row : InWindow(row, src)) :
                       sorted \in SortIndex(src.rows) }
         IN  IF df = { <<>> } THEN { <<>> }
             ELSE IF ~src.has_ohlc THEN { <<>> }
             ELSE df

(* lines 100-101, 107-108: the two failures that reach the trade logger *)
LoadLog(src) ==
    IF src.kind # "frame" THEN << LogRec("LOAD_DATA_FAIL", "FAILURE") >> ELSE <<>>

(* a table already ordered, one row per timestamp 1, 2, ..., all in window *)
CleanFrame(d) ==
    Source("frame", [i \in 1..Len(d) |-> Row(i, d[i])], TRUE, TRUE, TRUE, 1, Len(d))

(* line 314: self.data[self.data.index <= timestamp] *)
DataForSignal(d, timestamp) == SelectSeq(d, LAMBDA row : row.timestamp <= timestamp)

(* ------------------------- _execute_signal ----------------------------- *)
Long(e) == e.positions # <<>> /\ e.positions[1].entry_type = "LONG"

(* signal_details.get('price', current_bar_data['close']) *)
SignalPrice(sig, b) == IF sig.price = None THEN b.close ELSE sig.price

PyramidBlockedNever(c, pos) == FALSE

PyramidBlockedOffByOne(c, pos) ==
    ~c.allow_pyramiding \/ pos.num_entries > c.max_pyramid_entries

(* line 169: a BUY while long is dropped *)
PyramidBlocked(c, pos) ==
    ~c.allow_pyramiding \/ pos.num_entries >= c.max_pyramid_entries

InsufficientFundsNever(capital, cost) == FALSE

InsufficientFundsReversed(capital, cost) == capital > cost

(* line 213 *)
InsufficientFunds(capital, cost) == capital < cost

BuyCostWithoutBrokerage(c, sig, b) ==
    TradeValue(ApplySlippage(c, SignalPrice(sig, b), "BUY"), c.qty_per_trade)

(* lines 209-211: what a BUY of qty_per_trade costs, brokerage included *)
BuyCost(c, sig, b) ==
    LET trade_value_buy == TradeValue(ApplySlippage(c, SignalPrice(sig, b), "BUY"),
                                      c.qty_per_trade)
    IN  trade_value_buy + CalculateBrokerage(c, trade_value_buy)

(* lines 224-232 *)
NewPosition(qty, exec_price, ts, entry_sl, entry_tp) ==
    [qty |-> qty, avg_price |-> exec_price, entry_time |-> ts,
     stop_loss |-> entry_sl, target |-> entry_tp,
     entry_type |-> "LONG", num_entries |-> 1]

PyramidIntoOverwriteLevels(pos, qty, exec_price, entry_sl, entry_tp) ==
    LET new_total_qty == pos.qty + qty
        new_avg_price == ((pos.avg_price * pos.qty) + (exec_price * qty)) \div new_total_qty
    IN  [pos EXCEPT !.qty = new_total_qty,
                    !.avg_price = new_avg_price,
                    !.num_entries = @ + 1,
                    !.stop_loss = entry_sl,
                    !.target = entry_tp]

PyramidIntoLatestPrice(pos, qty, exec_price, entry_sl, entry_tp) ==
    LET new_total_qty == pos.qty + qty
    IN  [pos EXCEPT !.qty = new_total_qty,
                    !.avg_price = exec_price,
                    !.num_entries = @ + 1,
                    !.stop_loss = IF entry_sl # None THEN entry_sl ELSE @,
                    !.target = IF entry_tp # None THEN entry_tp ELSE @]

(* lines 235-243 *)
PyramidInto(pos, qty, exec_price, entry_sl, entry_tp) ==
    LET new_total_qty == pos.qty + qty
        new_avg_price == ((pos.avg_price * pos.qty) + (exec_price * qty)) \div new_total_qty
    IN  [pos EXCEPT !.qty = new_total_qty,
                    !.avg_price = new_avg_price,
                    !.num_entries = @ + 1,
                    !.stop_loss = IF entry_sl # None THEN entry_sl ELSE @,
                    !.target = IF entry_tp # None THEN entry_tp ELSE @]

(* signal_details.get('reason', 'STRATEGY_SELL_CLOSE') *)
SellReason(sig) == IF sig.reason = "" THEN "STRATEGY_SELL_CLOSE" ELSE sig.reason

(* lines 208-255.  The f-strings of lines 233 and 244 hold the format spec  *)
(* ".2f if entry_sl else 'N/A'": formatting raises (TypeError for None,     *)
(* ValueError for a number) after the capital and the position have been    *)
(* updated and before the EXECUTED_BUY record is logged.                    *)
ExecuteBuy(c, e, sig, b, ts) ==
    LET quantity_to_trade == c.qty_per_trade
        exec_price_buy  == ApplySlippage(c, SignalPrice(sig, b), "BUY")
        entry_sl        == sig.sl_price
        entry_tp        == sig.tp_price
    IN  IF InsufficientFunds(e.current_capital, BuyCost(c, sig, b))
        THEN [e EXCEPT !.log = Append(@, LogRec("BUY", "REJECTED"))]
        ELSE [e EXCEPT !.current_capital = @ - BuyCost(c, sig, b),
                       !.positions =
                           IF ~Long(e)
                           THEN <<NewPosition(quantity_to_trade, exec_price_buy, ts,
                                              entry_sl, entry_tp)>>
                           ELSE IF e.positions[1].qty + quantity_to_trade = 0
                           THEN e.positions   \* line 236: ZeroDivisionError
                           ELSE <<PyramidInto(e.positions[1], quantity_to_trade,
                                              exec_price_buy, entry_sl, entry_tp)>>,
                       !.raised = TRUE]

SellCloseEntryFeeCharged(c, e, sig, b, ts) ==
    LET pos_details     == e.positions[1]
        entry_price     == pos_details.avg_price
        closed_qty      == pos_details.qty
        exec_price_sell == ApplySlippage(c, SignalPrice(sig, b), "SELL")
        brokerage_sell  == CalculateBrokerage(c, TradeValue(exec_price_sell, closed_qty))
        brokerage_buy   == CalculateBrokerage(c, TradeValue(entry_price, closed_qty))
        pnl == TradeValue(exec_price_sell - entry_price, closed_qty)
                 - brokerage_sell - brokerage_buy
    IN  [e EXCEPT !.current_capital = @ + TradeValue(exec_price_sell, closed_qty)
                                        - brokerage_sell,
                  !.winning_trades  = IF pnl > 0 THEN @ + 1 ELSE @,
                  !.losing_trades   = IF pnl > 0 THEN @ ELSE @ + 1,
                  !.total_trades    = @ + 1,
                  !.trades = Append(@, [entry_time  |-> pos_details.entry_time,
                                        exit_time   |-> ts,
                                        entry_price |-> entry_price,
                                        exit_price  |-> exec_price_sell,
                                        qty         |-> closed_qty,
                                        pnl         |-> pnl,
                                        exit_reason |-> SellReason(sig)]),
                  !.positions = <<>>,
                  !.log = Append(@, LogRec("SELL", "EXECUTED_CLOSE"))]

SellCloseLastLot(c, e, sig, b, ts) ==
    LET pos_details     == e.positions[1]
        entry_price     == pos_details.avg_price
        closed_qty      == c.qty_per_trade
        exec_price_sell == ApplySlippage(c, SignalPrice(sig, b), "SELL")
        brokerage_sell  == CalculateBrokerage(c, TradeValue(exec_price_sell, closed_qty))
        pnl == TradeValue(exec_price_sell - entry_price, closed_qty) - brokerage_sell
    IN  [e EXCEPT !.current_capital = @ + TradeValue(exec_price_sell, closed_qty)
                                        - brokerage_sell,
                  !.winning_trades  = IF pnl > 0 THEN @ + 1 ELSE @,
                  !.losing_trades   = IF pnl > 0 THEN @ ELSE @ + 1,
                  !.total_trades    = @ + 1,
                  !.trades = Append(@, [entry_time  |-> pos_details.entry_time,
                                        exit_time   |-> ts,
                                        entry_price |-> entry_price,
                                        exit_price  |-> exec_price_sell,
                                        qty         |-> closed_qty,
                                        pnl         |-> pnl,
                                        exit_reason |-> SellReason(sig)]),
                  !.positions = IF pos_details.qty > closed_qty
                                THEN <<[pos_details EXCEPT !.qty = @ - closed_qty]>>
                                ELSE <<>>,
                  !.log = Append(@, LogRec("SELL", "EXECUTED_CLOSE"))]

(* lines 177-198: a SELL closes the long position *)
SellClose(c, e, sig, b, ts) ==
    LET pos_details     == e.positions[1]
        entry_price     == pos_details.avg_price
        closed_qty      == pos_details.qty
        exec_price_sell == ApplySlippage(c, SignalPrice(sig, b), "SELL")
        brokerage_sell  == CalculateBrokerage(c, TradeValue(exec_price_sell, closed_qty))
        pnl == TradeValue(exec_price_sell - entry_price, closed_qty) - brokerage_sell
    IN  [e EXCEPT !.current_capital = @ + TradeValue(exec_price_sell, closed_qty)
                                        - brokerage_sell,
                  !.winning_trades  = IF pnl > 0 THEN @ + 1 ELSE @,
                  !.losing_trades   = IF pnl > 0 THEN @ ELSE @ + 1,
                  !.total_trades    = @ + 1,
                  !.trades = Append(@, [entry_time  |-> pos_details.entry_time,
                                        exit_time   |-> ts,
                                        entry_price |-> entry_price,
                                        exit_price  |-> exec_price_sell,
                                        qty         |-> closed_qty,
                                        pnl         |-> pnl,
                                        exit_reason |-> SellReason(sig)]),
                  !.positions = <<>>,
                  !.log = Append(@, LogRec("SELL", "EXECUTED_CLOSE"))]

SellFlatOpensShort(c, e, sig, b, ts) ==
    LET exec_price_sell == ApplySlippage(c, SignalPrice(sig, b), "SELL")
    IN  [e EXCEPT !.positions = <<[NewPosition(c.qty_per_trade, exec_price_sell, ts,
                                               sig.sl_price, sig.tp_price)
                                   EXCEPT !.entry_type = "SHORT"]>>,
                  !.current_capital = @ + TradeValue(exec_price_sell, c.qty_per_trade)]

(* lines 200-205: a SELL with no LONG position to close returns at once;   *)
(* the short entry is a comment only                                       *)
SellFlat(c, e, sig, b, ts) == e

(* lines 160-256 (the second, complete definition of the method) *)
ExecuteSignal(c, e, sig, b, ts) ==
    IF sig.action = "BUY" /\ Long(e) /\ PyramidBlocked(c, e.positions[1])
    THEN e
    ELSE IF sig.action = "SELL"
    THEN IF Long(e)
         THEN SellClose(c, e, sig, b, ts)
         ELSE SellFlat(c, e, sig, b, ts)
    ELSE IF sig.action = "BUY"
    THEN ExecuteBuy(c, e, sig, b, ts)
    ELSE e

(* --------------------------- _check_sl_tp ------------------------------ *)
StopLossHit(pos, b) == pos.stop_loss # None /\ b.low <= pos.stop_loss

TargetHit(pos, b) == pos.target # None /\ b.high >= pos.target

ExitReasonTargetFirst(pos, b) ==
    IF pos.entry_type = "LONG" /\ TargetHit(pos, b) THEN "TARGET_HIT"
    ELSE IF pos.entry_type = "LONG" /\ StopLossHit(pos, b) THEN "STOP_LOSS_HIT"
    ELSE ""

(* lines 272-278: the exit reason, "" when no exit fires *)
ExitReason(pos, b) ==
    IF pos.entry_type = "LONG" /\ StopLossHit(pos, b) THEN "STOP_LOSS_HIT"
    ELSE IF pos.entry_type = "LONG" /\ TargetHit(pos, b) THEN "TARGET_HIT"
    ELSE ""

ExitLevelBarHigh(pos, b, reason) == IF reason = "STOP_LOSS_HIT" THEN pos.stop_loss ELSE b.high

ExitLevelBarLow(pos, b, reason) == IF reason = "STOP_LOSS_HIT" THEN b.low ELSE pos.target

(* lines 274, 277: the level the exit price is derived from *)
ExitLevel(pos, b, reason) == IF reason = "STOP_LOSS_HIT" THEN pos.stop_loss ELSE pos.target

(* lines 258-300 *)
CheckSlTp(c, e, b, ts) ==
    IF e.positions = <<>> THEN e
    ELSE LET pos == e.positions[1]
             exit_reason == ExitReason(pos, b)
         IN  IF exit_reason = "" THEN e
             ELSE ClosePosition(c, e, ApplySlippage(c, ExitLevel(pos, b, exit_reason), "SELL"),
                                ts, exit_reason, exit_reason)

(* -------------------------- _generate_summary -------------------------- *)
RECURSIVE SumPnl(_)
SumPnl(ts) == IF ts = <<>> THEN 0 ELSE ts[1].pnl + SumPnl(Tail(ts))

UnrealizedPnlIgnored(e, d) == 0

(* lines 330-335 *)
UnrealizedPnl(e, d) ==
    IF e.positions # <<>> /\ e.positions[1].entry_type = "LONG"
    THEN TradeValue(d[Len(d)].close - e.positions[1].avg_price, e.positions[1].qty)
    ELSE 0

(* lines 328-376: the record handed to log_daily_summary *)
GenerateSummary(c, e, d) ==
    LET unrealized_pnl == UnrealizedPnl(e, d)
        final_capital  == e.current_capital + unrealized_pnl
    IN  [realized_pnl   |-> SumPnl(e.trades),
         unrealized_pnl |-> unrealized_pnl,
         capital_start  |-> c.initial_capital,
         capital_end    |-> final_capital,
         trades_count   |-> e.total_trades,
         winning_trades |-> e.winning_trades,
         losing_trades  |-> e.losing_trades]

(* ------------------------------- state --------------------------------- *)
NoBar == [high |-> 0, low |-> 0, close |-> 0]

(* last: what the latest step did (op), whether its risk check closed the   *)
(* position (riskExit), whether it called generate_signals (polled), the    *)
(* signal it was given (signal), whether _execute_signal raised (raised),   *)
(* the bar it processed (b, at time ts; NoBar and 0 when none), and the     *)
(* positions dict as the step found it (before).                            *)
(* history is the table generate_signals was handed (<<>> when it was not   *)
(* called) and index the position in self.data of the bar a loop iteration  *)
(* processed (0 outside the loop).                                          *)
Last(op, riskExit, polled, sig, raised, b, ts) ==
    [op |-> op, riskExit |-> riskExit, polled |-> polled, signal |-> sig,
     raised |-> raised, b |-> b, ts |-> ts, before |-> positions,
     history |-> IF polled THEN DataForSignal(data, ts) ELSE <<>>,
     index |-> IF op = "bar" THEN bar ELSE 0]

NoOp(op) == Last(op, FALSE, FALSE, NoSignal, FALSE, NoBar, 0)

(* __init__, lines 49-76: the engine after construction; _log_initial_setup *)
(* writes the INIT record                                                   *)
(* no broker API and no TradeLogger has been constructed and the live flow *)
(* has not started: the engine and the strategies touch none of them      *)
NotConstructed == [op |-> "none"]

NoBroker ==
    /\ kite = NotConstructed
    /\ tlog = NotConstructed
    /\ upstox = NotConstructed
    /\ live = NotConstructed

InitEngine(c) ==
    /\ cfg = c
    /\ current_capital = c.initial_capital
    /\ positions = <<>>
    /\ trades = <<>>
    /\ total_trades = 0
    /\ winning_trades = 0
    /\ losing_trades = 0
    /\ log = <<LogRec("INIT", "INFO")>>
    /\ summaries = <<>>
    /\ bar = 0
    /\ runs = 0
    /\ calls = 0
    /\ last = [NoOp("init") EXCEPT !.before = <<>>]

(* a strategy about which nothing is known: any answer to any call *)
AnyStrategy == [kind |-> "any"]

Init ==
    /\ NoBroker
    /\ \E d \in DataSet : source = CleanFrame(d)
    /\ data \in LoadData(source)
    /\ strategy = AnyStrategy
    /\ outcomes = <<>>
    /\ \E c \in RunCfgSet : InitEngine(c)
    /\ pc = "idle"

(* ------------------------------- run() --------------------------------- *)
ShouldPollAlways(e0, e1) == TRUE

ShouldPollBeforeCheck(e0, e1) == e0.positions = <<>>

(* line 313: the strategy is asked only when no position is open, tested   *)
(* after the risk check of line 311 (e0 is the engine before it, e1 after) *)
ShouldPoll(e0, e1) == e1.positions = <<>>

(* line 321: only a BUY or SELL answer is executed *)
Actionable(sig) == sig.action \in {"BUY", "SELL"}

(* lines 303-308: run() is entered; empty data returns None at once *)
RunCall ==
    /\ pc \in {"idle", "returned", "raised"}
    /\ runs < MaxRuns
    /\ runs' = runs + 1
    /\ IF data = <<>>
       THEN pc' = "returned" /\ bar' = 0 /\ last' = NoOp("run_none")
       ELSE pc' = "loop" /\ bar' = 1 /\ last' = NoOp("run")
    /\ UNCHANGED <<upstox, live, kite, tlog, cfg, source, data, strategy, current_capital, positions, trades,
                   total_trades, winning_trades, losing_trades, log, summaries,
                   outcomes, calls>>

(* where the loop goes after the iteration of bar i *)
Advance(raised) ==
    IF raised THEN pc' = "raised" /\ bar' = bar
    ELSE IF bar < Len(data) THEN pc' = "loop" /\ bar' = bar + 1
    ELSE pc' = "summary" /\ bar' = bar

(* SmaCrossoverStrategy.__init__: the windows and the previous-SMA fields,  *)
(* None until the first call that computes both averages (an average of     *)
(* positive closes is never 0, so None = 0 stays apart from every value)    *)
NewSma(short_window, long_window) ==
    [kind |-> "sma", short_window |-> short_window, long_window |-> long_window,
     short_sma_prev |-> None, long_sma_prev |-> None]

RECURSIVE SumClose(_, _)
SumClose(h, n) ==
    IF n = 0 THEN 0 ELSE h[Len(h)].close + SumClose(SubSeq(h, 1, Len(h) - 1), n - 1)

(* historical_data['close'].rolling(window).mean().iloc[-1]; the closes are *)
(* multiples of PriceUnit, so the mean over a window of 1 or 2 is exact     *)
RollingMean(h, window) == SumClose(h, window) \div window

(* SmaCrossoverStrategy.generate_signals, lines 24-82 (no stop_loss_percent *)
(* or target_percent among the strategy's params)                           *)
SmaGenerateSignals(strat, historical_data) ==
    IF historical_data = <<>> \/ Len(historical_data) < strat.long_window
    THEN [signal |-> NoSignal, state |-> strat]
    ELSE LET short_sma     == RollingMean(historical_data, strat.short_window)
             long_sma      == RollingMean(historical_data, strat.long_window)
             current_price == historical_data[Len(historical_data)].close
             signal ==
                 IF strat.short_sma_prev # None /\ strat.long_sma_prev # None
                 THEN IF strat.short_sma_prev <= strat.long_sma_prev /\ short_sma > long_sma
                      THEN Sig("BUY", current_price, None, None, "")
                      ELSE IF strat.short_sma_prev >= strat.long_sma_prev
                              /\ short_sma < long_sma
                      THEN Sig("SELL", current_price, None, None, "SMA_CROSS_DOWN")
                      ELSE NoSignal
                 ELSE NoSignal
         IN  [signal |-> signal,
              state  |-> [strat EXCEPT !.short_sma_prev = short_sma,
                                       !.long_sma_prev = long_sma]]

(* line 318: self.strategy.generate_signals(historical_data): the answers  *)
(* the strategy can give, each with the state the call leaves it in         *)
GenerateSignals(strat, historical_data) ==
    IF strat.kind = "any"
    THEN { [signal |-> sig, state |-> strat] : sig \in SignalSet }
    ELSE { SmaGenerateSignals(strat, historical_data) }

(* lines 310-322: one iteration of the loop over the bars *)
BarStep ==
    /\ pc = "loop"
    /\ LET b  == data[bar]
           timestamp == b.timestamp
           e1 == CheckSlTp(cfg, Eng, b, timestamp)
           riskExit == Eng.positions # <<>> /\ e1.positions = <<>>
       IN  IF ShouldPoll(Eng, e1)
           THEN \E ans \in GenerateSignals(strategy, DataForSignal(data, timestamp)) :
                  LET sig == ans.signal
                      e2  == IF Actionable(sig)
                             THEN ExecuteSignal(cfg, e1, sig, b, timestamp) ELSE e1
                  IN  /\ SetEng(e2)
                      /\ Advance(e2.raised)
                      /\ strategy' = ans.state
                      /\ last' = Last("bar", riskExit, TRUE, sig, e2.raised, b, timestamp)
           ELSE /\ SetEng(e1)
                /\ Advance(FALSE)
                /\ strategy' = strategy
                /\ last' = Last("bar", riskExit, FALSE, NoSignal, FALSE, b, timestamp)
    /\ UNCHANGED <<upstox, live, kite, tlog, cfg, source, data, summaries, outcomes, runs, calls>>

(* lines 324-326: the summary, then the trade list is returned *)
SummaryStep ==
    /\ pc = "summary"
    /\ summaries' = Append(summaries, GenerateSummary(cfg, Eng, data))
    /\ pc' = "returned"
    /\ last' = NoOp("summary")
    /\ UNCHANGED <<upstox, live, kite, tlog, cfg, source, data, strategy, current_capital, positions, trades,
                   total_trades, winning_trades, losing_trades, log, outcomes,
                   bar, runs, calls>>

Next == RunCall \/ BarStep \/ SummaryStep

Spec == Init /\ [][Next]_vars

(* ------------- the engine's methods called one at a time --------------- *)
InitApi ==
    /\ NoBroker
    /\ \E c \in CfgSet : InitEngine(c)
    /\ source = CleanFrame(<<>>)
    /\ data = <<>>
    /\ strategy = AnyStrategy
    /\ outcomes = <<>>
    /\ pc = "api"

(* _execute_signal(signal_details, current_bar_data) on any bar *)
ExecuteSignalCall ==
    /\ pc = "api"
    /\ calls < MaxCalls
    /\ \E sig \in SignalSet, b \in BarSet :
         LET e2 == ExecuteSignal(cfg, Eng, sig, b, calls + 1)
         IN  /\ Actionable(sig)
             /\ SetEng(e2)
             /\ last' = Last("execute", FALSE, FALSE, sig, e2.raised, b, calls + 1)
    /\ calls' = calls + 1
    /\ UNCHANGED <<upstox, live, kite, tlog, cfg, source, data, strategy, summaries, outcomes, pc, bar, runs>>

(* _check_sl_tp(current_bar_data) on any bar *)
CheckSlTpCall ==
    /\ pc = "api"
    /\ calls < MaxCalls
    /\ \E b \in BarSet :
         LET e1 == CheckSlTp(cfg, Eng, b, calls + 1)
         IN  /\ SetEng(e1)
             /\ last' = Last("check", Eng.positions # <<>> /\ e1.positions = <<>>,
                             FALSE, NoSignal, FALSE, b, calls + 1)
    /\ calls' = calls + 1
    /\ UNCHANGED <<upstox, live, kite, tlog, cfg, source, data, strategy, summaries, outcomes, pc, bar, runs>>

NextApi == ExecuteSignalCall \/ CheckSlTpCall

SpecApi == InitApi /\ [][NextApi]_vars

(* the same calls on an engine constructed with any qty_per_trade *)
InitQty ==
    /\ NoBroker
    /\ \E c \in QtyCfgSet : InitEngine(c)
    /\ source = CleanFrame(<<>>)
    /\ data = <<>>
    /\ strategy = AnyStrategy
    /\ outcomes = <<>>
    /\ pc = "api"

SpecQty == InitQty /\ [][NextApi]_vars

(* ---------------- construction from any table, then run() --------------- *)
StartDate == 2

EndDate == 3

TsSet == (StartDate - 1)..(EndDate + 1)

(* two different bars for the first timestamp of the window, one for every  *)
(* other timestamp                                                          *)
RawRowSet ==
    { Row(StartDate, Bar(102, 99, 100)), Row(StartDate, Bar(105, 101, 103)) }
    \cup { Row(ts, Bar(103, 95, 98)) : ts \in TsSet \ {StartDate} }

(* the tables a caller can pass: rows in any order, timestamps repeated or  *)
(* outside the window, and the defects _load_data looks for                 *)
SourceSet ==
    { Source(k, <<>>, FALSE, FALSE, FALSE, StartDate, EndDate) :
        k \in {"missing_file", "invalid_type"} }
    \cup { Source("frame", rows, f[1], f[2], f[3], StartDate, EndDate) :
             rows \in SeqsUpTo(RawRowSet, MaxRows),
             f \in { <<TRUE, TRUE, TRUE>>, <<FALSE, TRUE, TRUE>>,
                     <<TRUE, FALSE, TRUE>>, <<TRUE, TRUE, FALSE>> } }

LoadCfgSet ==
    { c \in RunCfgSet : /\ c.initial_capital = Money(1500)
                        /\ c.brokerage_percent = 0
                        /\ c.stop_loss_percent = None
                        /\ ~c.allow_pyramiding }

(* before BacktestEngine(...) is called: the arguments are chosen *)
InitLoad ==
    /\ NoBroker
    /\ cfg \in LoadCfgSet
    /\ source \in SourceSet
    /\ data = <<>>
    /\ strategy = AnyStrategy
    /\ current_capital = 0
    /\ positions = <<>>
    /\ trades = <<>>
    /\ total_trades = 0
    /\ winning_trades = 0
    /\ losing_trades = 0
    /\ log = <<>>
    /\ summaries = <<>>
    /\ outcomes = <<>>
    /\ pc = "new"
    /\ bar = 0
    /\ runs = 0
    /\ calls = 0
    /\ last = [NoOp("new") EXCEPT !.before = <<>>]

(* __init__, lines 49-76: _load_data fills self.data (returning the empty   *)
(* frame on every failure, never raising), then the INIT record is logged   *)
ConstructCall ==
    /\ pc = "new"
    /\ data' \in LoadData(source)
    /\ current_capital' = cfg.initial_capital
    /\ positions' = <<>>
    /\ trades' = <<>>
    /\ total_trades' = 0
    /\ winning_trades' = 0
    /\ losing_trades' = 0
    /\ log' = LoadLog(source) \o <<LogRec("INIT", "INFO")>>
    /\ pc' = "idle"
    /\ last' = NoOp("init")
    /\ UNCHANGED <<upstox, live, kite, tlog, cfg, source, strategy, summaries, outcomes, bar, runs, calls>>

NextLoad == ConstructCall \/ RunCall \/ BarStep \/ SummaryStep

SpecLoad == InitLoad /\ [][NextLoad]_vars

(* ------- BaseStrategy.run_backtest, called again on one strategy -------- *)
SmaDataSet == SeqsUpTo(BarSet, MaxBars + 1)

(* run_backtest does not pass allow_pyramiding: the engine's default applies *)
SmaCfgSet == { c \in RunCfgSet : ~c.allow_pyramiding }

(* how the run that has just ended came out: returned or raised, the trade  *)
(* list, and the summary if it wrote one                                    *)
Outcome ==
    [result  |-> pc,
     trades  |-> trades,
     summary |-> IF pc = "returned" /\ data # <<>>
                 THEN <<summaries[Len(summaries)]>> ELSE <<>>]

(* a SmaCrossoverStrategy has been constructed; no backtest has run yet *)
InitSma ==
    /\ NoBroker
    /\ cfg \in SmaCfgSet
    /\ \E d \in SmaDataSet : source = CleanFrame(d)
    /\ data = <<>>
    /\ strategy = NewSma(1, 2)
    /\ current_capital = 0
    /\ positions = <<>>
    /\ trades = <<>>
    /\ total_trades = 0
    /\ winning_trades = 0
    /\ losing_trades = 0
    /\ log = <<>>
    /\ summaries = <<>>
    /\ outcomes = <<>>
    /\ pc = "fresh"
    /\ bar = 0
    /\ runs = 0
    /\ calls = 0
    /\ last = [NoOp("new") EXCEPT !.before = <<>>]

(* base_strategy.py lines 87-102: a new BacktestEngine on the same table    *)
(* and arguments, with strategy=self and the strategy's logger, and         *)
(* engine.run() entered; the strategy object and the logger are the ones    *)
(* the earlier backtest used                                                *)
RunBacktest ==
    /\ pc \in {"fresh", "returned", "raised"}
    /\ runs < MaxRuns
    /\ runs' = runs + 1
    /\ outcomes' = IF pc = "fresh" THEN outcomes ELSE Append(outcomes, Outcome)
    /\ data' \in LoadData(source)
    /\ current_capital' = cfg.initial_capital
    /\ positions' = <<>>
    /\ trades' = <<>>
    /\ total_trades' = 0
    /\ winning_trades' = 0
    /\ losing_trades' = 0
    /\ log' = log \o LoadLog(source) \o <<LogRec("INIT", "INFO")>>
    /\ IF data' = <<>>
       THEN pc' = "returned" /\ bar' = 0 /\ last' = NoOp("run_none")
       ELSE pc' = "loop" /\ bar' = 1 /\ last' = NoOp("run")
    /\ UNCHANGED <<upstox, live, kite, tlog, cfg, source, strategy, summaries, calls>>

NextSma == RunBacktest \/ BarStep \/ SummaryStep

SpecSma == InitSma /\ [][NextSma]_vars

(* ============ SmaCrossoverStrategy.__init__ on any params ============== *)
(* a value of params['short_window'] / params['long_window'] with its      *)
(* Python type; a bool is an int (isinstance(True, int)), worth 1 or 0     *)
Param(type, val) == [type |-> type, val |-> val]

Absent == Param("absent", 0)

ParamSet ==
    { Param("int", v) : v \in {0 - 1, 0, 1, 2} }
    \cup { Param("bool", v) : v \in {0, 1} }
    \cup { Param("float", 2), Param("str", 0), Param("NoneType", 0), Absent }

(* lines 8-9: params.get(key, default) *)
ParamGet(p, default) == IF p = Absent THEN Param("int", default) ELSE p

IsInstanceInt(p) == p.type \in {"int", "bool"}

WindowsAcceptedAllowsEqual(short_window, long_window) ==
    /\ IsInstanceInt(short_window) /\ IsInstanceInt(long_window)
    /\ short_window.val > 0 /\ long_window.val > 0
    /\ short_window.val <= long_window.val

(* lines 11-15: neither ValueError is raised *)
WindowsAccepted(short_window, long_window) ==
    /\ ~(\/ ~IsInstanceInt(short_window) \/ ~IsInstanceInt(long_window)
         \/ short_window.val <= 0 \/ long_window.val <= 0)
    /\ ~(short_window.val >= long_window.val)

(* before SmaCrossoverStrategy(name, broker_api, logger, params): cfg is   *)
(* the params dictionary                                                   *)
InitSmaParams ==
    /\ NoBroker
    /\ cfg \in [short_window : ParamSet, long_window : ParamSet]
    /\ source = NotConstructed
    /\ data = <<>>
    /\ strategy = [kind |-> "none"]
    /\ current_capital = 0
    /\ positions = <<>>
    /\ trades = <<>>
    /\ total_trades = 0
    /\ winning_trades = 0
    /\ losing_trades = 0
    /\ log = <<>>
    /\ summaries = <<>>
    /\ outcomes = <<>>
    /\ pc = "sma_new"
    /\ bar = 0
    /\ runs = 0
    /\ calls = 0
    /\ last = [NoOp("new") EXCEPT !.before = <<>>]

(* SmaCrossoverStrategy.__init__, lines 6-22 *)
SmaConstruct ==
    /\ pc = "sma_new"
    /\ LET short_window == ParamGet(cfg.short_window, 20)
           long_window  == ParamGet(cfg.long_window, 50)
       IN  IF WindowsAccepted(short_window, long_window)
           THEN /\ strategy' = NewSma(short_window.val, long_window.val)
                /\ pc' = "sma_ready"
                /\ last' = NoOp("sma_init")
           ELSE /\ strategy' = strategy
                /\ pc' = "sma_raised"
                /\ last' = [NoOp("sma_init") EXCEPT !.raised = TRUE]
    /\ UNCHANGED <<upstox, live, kite, tlog, cfg, source, data, current_capital, positions, trades,
                   total_trades, winning_trades, losing_trades, log, summaries,
                   outcomes, bar, runs, calls>>

(* generate_signals(historical_data) called on the constructed strategy *)
SmaGenerateCall ==
    /\ pc = "sma_ready"
    /\ calls < MaxCalls
    /\ \E h \in SmaDataSet :
         LET ans == SmaGenerateSignals(strategy, CleanFrame(h).rows)
         IN  /\ strategy' = ans.state
             /\ data' = CleanFrame(h).rows
             /\ last' = Last("generate", FALSE, FALSE, ans.signal, FALSE, NoBar, 0)
    /\ calls' = calls + 1
    /\ UNCHANGED <<upstox, live, kite, tlog, cfg, source, current_capital, positions, trades,
                   total_trades, winning_trades, losing_trades, log, summaries,
                   outcomes, pc, bar, runs>>

NextSmaParams == SmaConstruct \/ SmaGenerateCall

SpecSmaParams == InitSmaParams /\ [][NextSmaParams]_vars

(* ============ KiteConnectAPI (brokers/zerodha/kite_connect.py) ========= *)
(* The variable kite holds one KiteConnectAPI instance, the token file it  *)
(* reads and writes, the two configuration values login() consults, and a  *)
(* record of the last call: its return value, the exception it let out,    *)
(* the records it handed to logger.log_trade and the SDK calls it made.    *)
(* The logger is present, as in main.py and in the tests.                  *)
MaxKiteCalls == 3

(* Python's None, and an absent dictionary key *)
Nil == "None"

TokenSet == { "token_a", "token_b" }

UserSet == { "user_x" }

ConfigRequestToken == "request_token_config"

OverrideRequestToken == "request_token_override"

ConfigApiSecret == "api_secret_config"

(* kiteconnect.exceptions: TokenException and InputException are           *)
(* KiteException subclasses; "Exception" is anything else                  *)
ExceptionSet == { "TokenException", "InputException", "KiteException", "Exception" }

(* what an SDK call answers: a value (kind "ok") or a raised exception *)
Answer(kind, access_token, user_id) ==
    [kind |-> kind, access_token |-> access_token, user_id |-> user_id]

Ok == Answer("ok", Nil, Nil)

RaisedSet == { Answer(e, Nil, Nil) : e \in ExceptionSet }

(* kite.profile(): a non-empty dictionary, with or without "user_id" *)
ProfileAnswers == { Answer("ok", Nil, u) : u \in UserSet \cup {Nil} } \cup RaisedSet

(* kite.generate_session(): a dictionary, whose keys the SDK chooses *)
SessionAnswers ==
    { Answer("ok", t, u) : t \in TokenSet \cup {Nil}, u \in UserSet \cup {Nil} }
    \cup RaisedSet

(* every other SDK call *)
CallAnswers == { Ok } \cup RaisedSet

(* the outcome of writing the token file: written, open() failed (file     *)
(* untouched), or the write failed after open(.., 'w') truncated the file  *)
IoSet == { "ok", "open_fails", "write_fails" }

SessionData(access_token, user_id) == [access_token |-> access_token, user_id |-> user_id]

NoData == SessionData(Nil, Nil)

TokenFile(kind, token_data) == [kind |-> kind, data |-> token_data]

FileSet ==
    { TokenFile("missing", NoData), TokenFile("corrupt", NoData) }
    \cup { TokenFile("json", SessionData(t, u)) :
             t \in TokenSet \cup {Nil}, u \in UserSet \cup {Nil} }

(* _log_api_action, lines 32-43: one logger.log_trade call; user is the    *)
(* user id the remarks name, Nil when they name none                       *)
LogApiAction(k, action, status, user) ==
    [k EXCEPT !.emitted = Append(@, [action |-> action, status |-> status, user |-> user])]

(* a call of the SDK object self.kite, with the answer it gave *)
Sdk(k, fn, a, b, answer) ==
    [k EXCEPT !.sdk = Append(@, [fn |-> fn, a |-> a, b |-> b, answer |-> answer])]

(* self.kite.set_access_token(t) *)
SetAccessToken(k, t) == Sdk([k EXCEPT !.kite_token = t], "set_access_token", t, Nil, Ok)

Return(k, v) == [k EXCEPT !.ret = v]

Raise(k, exc) == [k EXCEPT !.raised = exc]

(* _save_access_token_data, lines 45-51 *)
SaveAccessTokenData(k, token_data, io) ==
    IF io = "ok"
    THEN LogApiAction([k EXCEPT !.file = TokenFile("json", token_data)],
                      "SAVE_TOKEN", "SUCCESS", Nil)
    ELSE LogApiAction([k EXCEPT !.file = IF io = "open_fails" THEN @
                                         ELSE TokenFile("corrupt", NoData)],
                      "SAVE_TOKEN", "FAILURE", Nil)

(* line 59: the loaded dictionary is accepted only with both keys *)
TokenDataAccepted(token_data) == token_data.access_token # Nil /\ token_data.user_id # Nil

(* _load_access_token_data, lines 53-67: loaded is whether it returned a   *)
(* dictionary (None otherwise)                                             *)
LoadAccessTokenData(k) ==
    IF k.file.kind = "missing"
    THEN [k |-> k, loaded |-> FALSE, data |-> NoData]
    ELSE IF k.file.kind = "json" /\ TokenDataAccepted(k.file.data)
    THEN [k |-> LogApiAction(k, "LOAD_TOKEN", "SUCCESS", Nil),
          loaded |-> TRUE, data |-> k.file.data]
    ELSE [k |-> LogApiAction(k, "LOAD_TOKEN", "FAILURE", Nil),
          loaded |-> FALSE, data |-> NoData]

ErrorStatusAlwaysFailure(action, exc) == "FAILURE"

(* the status an except clause logs: TOKEN_ERROR at lines 137-138 and 196, *)
(* INPUT_ERROR at line 195, FAILURE in every other except clause           *)
ErrorStatus(action, exc) ==
    IF exc = "TokenException" /\ action \in {"GET_PROFILE", "PLACE_ORDER"}
    THEN "TOKEN_ERROR"
    ELSE IF exc = "InputException" /\ action = "PLACE_ORDER"
    THEN "INPUT_ERROR"
    ELSE "FAILURE"

(* get_profile, lines 128-144; a returned profile is written "profile" *)
GetProfile(k, force_fetch, prof) ==
    IF k.access_token = Nil /\ ~force_fetch
    THEN Return(LogApiAction(k, "GET_PROFILE", "FAILURE", Nil), Nil)
    ELSE LET k1 == Sdk(k, "profile", Nil, Nil, prof)
         IN  IF prof.kind = "ok"
             THEN Return(LogApiAction(k1, "GET_PROFILE", "SUCCESS", prof.user_id),
                         "profile")
             ELSE LET k2 == LogApiAction(k1, "GET_PROFILE",
                                         ErrorStatus("GET_PROFILE", prof.kind), Nil)
                  IN  IF prof.kind = "TokenException" /\ force_fetch
                      THEN Raise(k2, "TokenException")
                      ELSE Return(k2, Nil)

(* generate_session, lines 72-91; a dictionary without "access_token" is a *)
(* KeyError at line 79, caught at line 89                                  *)
GenerateSession(k, request_token, api_secret, gen, io) ==
    IF api_secret = Nil
    THEN Return(LogApiAction(k, "GEN_SESSION", "FAILURE", Nil), Nil)
    ELSE LET k1 == Sdk(k, "generate_session", request_token, api_secret, gen)
         IN  IF gen.kind # "ok" \/ gen.access_token = Nil
             THEN Return(LogApiAction(k1, "GEN_SESSION", "FAILURE", Nil), Nil)
             ELSE LET k2 == SetAccessToken([k1 EXCEPT !.access_token = gen.access_token],
                                           gen.access_token)
                      k3 == [k2 EXCEPT !.user_id = IF gen.user_id # Nil
                                                   THEN gen.user_id ELSE @]
                      k4 == SaveAccessTokenData(k3,
                                SessionData(gen.access_token, gen.user_id), io)
                  IN  Return(LogApiAction(k4, "GEN_SESSION", "SUCCESS", k4.user_id),
                             k4.access_token)

ProfileAcceptedNever(profile) == FALSE

(* line 100: if profile *)
ProfileAccepted(profile) == profile # Nil

CurrentRequestTokenConfigOnly(k, request_token_override) == k.ZERODHA_REQUEST_TOKEN

(* line 114 *)
CurrentRequestToken(k, request_token_override) ==
    IF request_token_override # Nil THEN request_token_override
    ELSE k.ZERODHA_REQUEST_TOKEN

(* login, lines 114-126: no stored session was usable *)
NewLogin(k, request_token_override, gen, io) ==
    LET current_request_token == CurrentRequestToken(k, request_token_override)
    IN  IF current_request_token = Nil
        THEN Return(LogApiAction(Sdk(k, "login_url", Nil, Nil, Ok),
                                 "LOGIN", "PROMPT", Nil), Nil)
        ELSE IF k.ZERODHA_API_SECRET = Nil
        THEN Return(LogApiAction(k, "LOGIN", "FAILURE", Nil), Nil)
        ELSE GenerateSession(k, current_request_token, k.ZERODHA_API_SECRET, gen, io)

(* login, lines 93-126 *)
Login(k, request_token_override, prof, gen, io) ==
    LET ld == LoadAccessTokenData(k)
        stored == ld.data.access_token
    IN  IF ld.loaded /\ stored # Nil
        THEN LET gp == GetProfile(SetAccessToken(ld.k, stored), TRUE, prof)
             IN  IF gp.raised = Nil /\ ProfileAccepted(gp.ret)
                 THEN LET k1 == [gp EXCEPT !.access_token = stored,
                                           !.user_id = IF prof.user_id # Nil
                                                       THEN prof.user_id ELSE @]
                      IN  Return(LogApiAction(k1, "LOGIN", "SUCCESS", k1.user_id),
                                 k1.access_token)
                 ELSE NewLogin(LogApiAction([gp EXCEPT !.raised = Nil, !.ret = Nil],
                                            "LOGIN", "INFO", Nil),
                               request_token_override, gen, io)
        ELSE NewLogin(ld.k, request_token_override, gen, io)

GuardedWithoutGuard(k, action, fn, answer) ==
    LET k1 == Sdk(k, fn, Nil, Nil, answer)
    IN  IF answer.kind = "ok"
        THEN Return(LogApiAction(k1, action, "SUCCESS", Nil), "data")
        ELSE Return(LogApiAction(k1, action, ErrorStatus(action, answer.kind), Nil), Nil)

(* get_margins .. get_trades, lines 146-247: the guard, the SDK call, the  *)
(* except clauses; a returned value is written "data"                      *)
Guarded(k, action, fn, answer) ==
    IF k.access_token = Nil
    THEN Return(LogApiAction(k, action, "FAILURE", Nil), Nil)
    ELSE LET k1 == Sdk(k, fn, Nil, Nil, answer)
         IN  IF answer.kind = "ok"
             THEN Return(LogApiAction(k1, action, "SUCCESS", Nil), "data")
             ELSE Return(LogApiAction(k1, action, ErrorStatus(action, answer.kind), Nil),
                         Nil)

(* __init__, lines 18-30 *)
NewKite(file, request_token, api_secret, access_token, user_id_for_logging, n) ==
    [ZERODHA_REQUEST_TOKEN |-> request_token, ZERODHA_API_SECRET |-> api_secret,
     file |-> file, access_token |-> access_token, user_id |-> user_id_for_logging,
     kite_token |-> Nil, constructed_with |-> access_token, n |-> n,
     op |-> "init", arg |-> Nil, ret |-> Nil, raised |-> Nil,
     emitted |-> <<[action |-> "INIT_KITE_API", status |-> "SUCCESS",
                    user |-> user_id_for_logging]>>,
     sdk |-> <<>>]

(* a caller enters a method of the instance *)
Enter(op, arg) ==
    [kite EXCEPT !.op = op, !.arg = arg, !.n = @ + 1, !.ret = Nil, !.raised = Nil,
                 !.emitted = <<>>, !.sdk = <<>>]

engine_vars == <<cfg, source, data, strategy, current_capital, positions, trades,
                 total_trades, winning_trades, losing_trades,
                 log, summaries, outcomes, pc, bar, runs, calls, last>>

(* no BacktestEngine has been constructed *)
NoEngine ==
    /\ cfg = NotConstructed
    /\ source = NotConstructed
    /\ data = <<>>
    /\ strategy = AnyStrategy
    /\ current_capital = 0
    /\ positions = <<>>
    /\ trades = <<>>
    /\ total_trades = 0
    /\ winning_trades = 0
    /\ losing_trades = 0
    /\ log = <<>>
    /\ summaries = <<>>
    /\ outcomes = <<>>
    /\ pc = "none"
    /\ bar = 0
    /\ runs = 0
    /\ calls = 0
    /\ last = NotConstructed

(* the answers an SDK call can give where the call is made, one           *)
(* placeholder where the code does not reach it: kite.profile() is called *)
(* by login() only on a loaded token (line 99), the token file is written *)
(* only with a generated session (line 82)                                *)
ProfileAnswersFor(k) ==
    IF LoadAccessTokenData(k).loaded THEN ProfileAnswers ELSE { Ok }

IoSetFor(gen) ==
    IF gen.kind = "ok" /\ gen.access_token # Nil THEN IoSet ELSE { "ok" }

(* a KiteConnectAPI has been constructed, on any token file and config *)
InitKite ==
    /\ NoEngine
    /\ tlog = NotConstructed
    /\ upstox = NotConstructed
    /\ live = NotConstructed
    /\ \E f \in FileSet, r \in {Nil, ConfigRequestToken}, s \in {Nil, ConfigApiSecret},
          a \in {Nil, "token_a"} :
          kite = NewKite(f, r, s, a, Nil, 0)

(* KiteConnectAPI(...) again: a fresh instance on the same file and config *)
KiteConstruct ==
    /\ kite.n < MaxKiteCalls
    /\ \E a \in {Nil, "token_a"} :
          kite' = NewKite(kite.file, kite.ZERODHA_REQUEST_TOKEN, kite.ZERODHA_API_SECRET,
                          a, Nil, kite.n + 1)
    /\ UNCHANGED <<engine_vars, tlog, upstox, live>>

KiteLogin ==
    /\ kite.n < MaxKiteCalls
    /\ \E o \in {Nil, OverrideRequestToken}, prof \in ProfileAnswersFor(kite),
          gen \in SessionAnswers :
       \E io \in IoSetFor(gen) :
          kite' = Login(Enter("login", o), o, prof, gen, io)
    /\ UNCHANGED <<engine_vars, tlog, upstox, live>>

KiteGenerateSession ==
    /\ kite.n < MaxKiteCalls
    /\ \E r \in {ConfigRequestToken}, s \in {Nil, ConfigApiSecret},
          gen \in SessionAnswers :
       \E io \in IoSetFor(gen) :
          kite' = GenerateSession(Enter("generate_session", r), r, s, gen, io)
    /\ UNCHANGED <<engine_vars, tlog, upstox, live>>

KiteGetProfile ==
    /\ kite.n < MaxKiteCalls
    /\ \E prof \in ProfileAnswers :
          kite' = GetProfile(Enter("get_profile", Nil), FALSE, prof)
    /\ UNCHANGED <<engine_vars, tlog, upstox, live>>

(* place_order, lines 179-199 *)
KitePlaceOrder ==
    /\ kite.n < MaxKiteCalls
    /\ \E answer \in CallAnswers :
          kite' = Guarded(Enter("place_order", Nil), "PLACE_ORDER", "place_order", answer)
    /\ UNCHANGED <<engine_vars, tlog, upstox, live>>

(* the other operations behind the access_token guard (lines 146-177 and   *)
(* 201-247), with the action name each logs and the SDK method each calls  *)
GuardedOps ==
    { <<"get_margins", "GET_MARGINS", "margins">>,
      <<"get_positions", "GET_POSITIONS", "positions">>,
      <<"get_holdings", "GET_HOLDINGS", "holdings">>,
      <<"modify_order", "MODIFY_ORDER", "modify_order">>,
      <<"cancel_order", "CANCEL_ORDER", "cancel_order">>,
      <<"get_order_history", "GET_ORDER_HISTORY", "order_history">>,
      <<"get_trades", "GET_TRADES_FOR_ORDER", "order_trades">> }

KiteGuardedCall ==
    /\ kite.n < MaxKiteCalls
    /\ \E g \in GuardedOps, answer \in CallAnswers :
          kite' = Guarded(Enter(g[1], Nil), g[2], g[3], answer)
    /\ UNCHANGED <<engine_vars, tlog, upstox, live>>

NextKite ==
    \/ KiteConstruct
    \/ KiteLogin
    \/ KiteGenerateSession
    \/ KiteGetProfile
    \/ KitePlaceOrder
    \/ KiteGuardedCall

SpecKite == InitKite /\ [][NextKite]_vars

(* ============ TradeLogger (data_management/trade_logger.py) ============ *)
(* The variable tlog holds the trade log file (whether it begins with the  *)
(* header row, and the list of the rows after it), the number of calls     *)
(* made (the clock the timestamps are read from), and the last call with   *)
(* its return value.  A cell is what csv.writer writes: a None cell is the *)
(* empty string, a number its text.  A remark built by an f-string is the  *)
(* pair of its fixed prefix and the interpolated text.                     *)
MaxLogCalls == 3

OrderIdSet == { "ORDER001", "ORDER002" }

StatusSet == { "PLACED", "EXECUTED" }

RemarkSet == { "", "Filled" }

(* csv.writer.writerow: None is written as the empty string *)
CsvCell(v) == IF v = Nil THEN "" ELSE v

CsvRow(timestamp, strategy_name, symbol, exchange, action, quantity, price, order_type, stop_loss, target, order_id, status, remarks) ==
    [Timestamp |-> timestamp, Strategy |-> CsvCell(strategy_name),
     Symbol |-> CsvCell(symbol), Exchange |-> CsvCell(exchange),
     Action |-> CsvCell(action), Quantity |-> quantity, Price |-> price,
     OrderType |-> CsvCell(order_type), StopLoss |-> CsvCell(stop_loss),
     Target |-> CsvCell(target), OrderID |-> CsvCell(order_id),
     Status |-> CsvCell(status), Remarks |-> remarks]

(* lines 40-44: the row log_trade writes *)
TradeData(timestamp, strategy_name, action, order_id, status, remarks) ==
    CsvRow(timestamp, strategy_name, "TEST", "NSE", action, "10", "100.0", "LIMIT",
           Nil, Nil, order_id, status, <<remarks>>)

(* lines 60-64: the row update_trade_status writes *)
UpdateData(timestamp, order_id, new_status, remarks) ==
    CsvRow(timestamp, "SYSTEM_UPDATE", "-", "-", "UPDATE_STATUS", "0", "0.0", "-",
           Nil, Nil, order_id, new_status, <<"Previous status update: ", remarks>>)

AppendRowReplacingLast(rows, row) ==
    IF rows # <<>> THEN [rows EXCEPT ![Len(rows)] = row] ELSE Append(rows, row)

(* lines 46-48 and 66-68: open(file, 'a') and one writerow *)
AppendRow(rows, row) == Append(rows, row)

(* a call of the logger: the row is appended and True returned, or open()  *)
(* raises, nothing is written and False is returned (lines 51-53, 71-73)   *)
Logged(t, op, order_id, status, row, io_ok) ==
    [t EXCEPT !.rows = IF io_ok THEN AppendRow(@, row) ELSE @,
              !.n = @ + 1, !.op = op, !.ret = io_ok,
              !.order_id = order_id, !.status = status]

(* log_trade, lines 38-53 *)
LogTrade(t, strategy_name, action, order_id, status, remarks, io_ok) ==
    Logged(t, "log_trade", order_id, status,
           TradeData(t.n + 1, strategy_name, action, order_id, status, remarks), io_ok)

(* update_trade_status, lines 55-73 *)
UpdateTradeStatus(t, order_id, new_status, remarks, io_ok) ==
    Logged(t, "update_trade_status", order_id, new_status,
           UpdateData(t.n + 1, order_id, new_status, remarks), io_ok)

(* before TradeLogger(...): the file is absent or is an earlier log, and   *)
(* its path has a directory part or is a bare file name                    *)
InitLogger ==
    /\ NoEngine
    /\ kite = NotConstructed
    /\ upstox = NotConstructed
    /\ live = NotConstructed
    /\ \E has_dir \in BOOLEAN, exists \in BOOLEAN,
          old \in { <<>>, <<TradeData(0, "Earlier", "SELL", "ORDER001", "EXECUTED", "")>> } :
          /\ (~exists => old = <<>>)
          /\ tlog = [op |-> "new", has_dir |-> has_dir, header |-> exists, rows |-> old,
                     n |-> 0, ret |-> FALSE, order_id |-> Nil, status |-> Nil]

(* __init__ and _initialize_trade_log, lines 7-24: os.makedirs of the      *)
(* path's directory part raises FileNotFoundError when that part is empty, *)
(* and no logger exists; otherwise an absent file gets the header row of   *)
(* lines 19-23                                                             *)
TradeLoggerConstruct ==
    /\ tlog.op = "new"
    /\ tlog' = IF ~tlog.has_dir THEN [tlog EXCEPT !.op = "init_raised"]
               ELSE [tlog EXCEPT !.op = "init", !.header = TRUE]
    /\ UNCHANGED <<engine_vars, kite, upstox, live>>

Constructed(t) == t.op \in { "init", "log_trade", "update_trade_status" }

LogTradeCall ==
    /\ Constructed(tlog)
    /\ tlog.n < MaxLogCalls
    /\ \E strategy_name \in { "TestStrategy" }, action \in { "BUY", "SELL" },
          order_id \in OrderIdSet \cup {Nil}, status \in StatusSet \cup {"PENDING"},
          io_ok \in BOOLEAN :
          tlog' = LogTrade(tlog, strategy_name, action, order_id, status, "", io_ok)
    /\ UNCHANGED <<engine_vars, kite, upstox, live>>

UpdateTradeStatusCall ==
    /\ Constructed(tlog)
    /\ tlog.n < MaxLogCalls
    /\ \E order_id \in OrderIdSet, new_status \in StatusSet, remarks \in RemarkSet,
          io_ok \in BOOLEAN :
          tlog' = UpdateTradeStatus(tlog, order_id, new_status, remarks, io_ok)
    /\ UNCHANGED <<engine_vars, kite, upstox, live>>

NextLogger == TradeLoggerConstruct \/ LogTradeCall \/ UpdateTradeStatusCall

SpecLogger == InitLogger /\ [][NextLogger]_vars

(* ------------------- brokers/upstox/upstox_api.py ---------------------- *)
(* The variable upstox holds one UpstoxAPI instance with the token file it *)
(* reads and writes: access_token and user_id are the instance's fields,   *)
(* sdk_token is api_client.configuration.access_token, emitted the records *)
(* handed to _log_api_action and sdk the calls made on the Upstox SDK.     *)
(* Fields op, arg and ret describe the last call of a public method.       *)
MaxUpstoxCalls == 2

AuthCode == "auth_code"

(* user_api.get_profile(): a response with a data attribute, a response    *)
(* without one, or a raised exception (ApiException with status 401 or     *)
(* another status, or any other exception)                                 *)
UpstoxProfileAnswers ==
    { "data", "no_data", "ApiException_401", "ApiException_500", "Exception" }

(* login_api.token(): a response carrying an access_token (with or without *)
(* a user_id), one carrying none, or a raised exception                    *)
UpstoxSessionAnswers ==
    { Answer("ok", t, u) : t \in {"token_b", Nil}, u \in UserSet \cup {Nil} }
    \cup { Answer(e, Nil, Nil) : e \in {"ApiException", "Exception"} }

(* every other SDK call *)
UpstoxCallAnswers == { "ok", "ApiException", "Exception" }

(* _log_api_action, lines 46-63 *)
UpstoxLog(u, action, status) ==
    [u EXCEPT !.emitted = Append(@, [action |-> action, status |-> status])]

(* a call made on the SDK, with the token the SDK's client held *)
UpstoxSdk(u, fn, answer) ==
    [u EXCEPT !.sdk = Append(@, [fn |-> fn, token |-> u.sdk_token, answer |-> answer])]

(* _save_access_token_data, lines 65-83, on a dict that has access_token *)
UpstoxSaveAccessTokenData(u, token_data, io) ==
    IF io = "ok"
    THEN UpstoxLog([u EXCEPT !.file = TokenFile("json", token_data)], "SAVE_TOKEN", "SUCCESS")
    ELSE UpstoxLog([u EXCEPT !.file = IF io = "open_fails" THEN @
                                      ELSE TokenFile("corrupt", NoData)],
                   "SAVE_TOKEN", "FAILURE")

(* line 91: the stored dictionary needs the key access_token only *)
UpstoxTokenDataAccepted(token_data) == token_data.access_token # Nil

(* _load_access_token_data, lines 85-99 *)
UpstoxLoadAccessTokenData(u) ==
    IF u.file.kind = "missing"
    THEN [u |-> u, loaded |-> FALSE, data |-> NoData]
    ELSE IF u.file.kind = "json" /\ UpstoxTokenDataAccepted(u.file.data)
    THEN [u |-> UpstoxLog(u, "LOAD_TOKEN", "SUCCESS"), loaded |-> TRUE, data |-> u.file.data]
    ELSE [u |-> UpstoxLog(u, "LOAD_TOKEN", "FAILURE"), loaded |-> FALSE, data |-> NoData]

(* _set_sdk_access_token, lines 101-109 *)
UpstoxSetSdkAccessToken(u, access_token_str) ==
    IF access_token_str # Nil
    THEN UpstoxLog([u EXCEPT !.access_token = access_token_str,
                             !.sdk_token = access_token_str],
                   "SET_SDK_TOKEN", "SUCCESS")
    ELSE UpstoxLog(u, "SET_SDK_TOKEN", "FAILURE")

(* generate_session, lines 125-178 *)
UpstoxGenerateSession(u, auth_code, gen, io) ==
    IF u.api_secret = Nil
    THEN [UpstoxLog(u, "GEN_SESSION", "FAILURE") EXCEPT !.ret = Nil]
    ELSE LET called == UpstoxSdk(u, "token", gen.kind)
         IN  IF gen.kind = "ok" /\ gen.access_token # Nil
             THEN LET set == UpstoxSetSdkAccessToken(
                                 [called EXCEPT !.access_token = gen.access_token],
                                 gen.access_token)
                      saved == UpstoxSaveAccessTokenData(
                                   [set EXCEPT !.user_id = gen.user_id],
                                   SessionData(gen.access_token, gen.user_id), io)
                  IN  [UpstoxLog(saved, "GEN_SESSION", "SUCCESS")
                           EXCEPT !.ret = gen.access_token]
             ELSE IF gen.kind = "ApiException"
             THEN [UpstoxLog(called, "GEN_SESSION", "API_EXCEPTION") EXCEPT !.ret = Nil]
             ELSE [UpstoxLog(called, "GEN_SESSION", "FAILURE") EXCEPT !.ret = Nil]

(* get_profile, lines 220-248: found tells whether a profile is returned,  *)
(* raised whether the ApiException is raised again (status 401 only)       *)
UpstoxGetProfile(u, force_fetch, prof) ==
    IF u.access_token = Nil /\ ~force_fetch
    THEN [u |-> UpstoxLog(u, "GET_PROFILE", "FAILURE"), found |-> FALSE, raised |-> FALSE]
    ELSE LET called == UpstoxSdk(u, "get_profile", prof)
         IN  CASE prof = "data" ->
                    [u |-> UpstoxLog(called, "GET_PROFILE", "SUCCESS"),
                     found |-> TRUE, raised |-> FALSE]
               [] prof = "no_data" ->
                    [u |-> UpstoxLog(called, "GET_PROFILE", "FAILURE"),
                     found |-> FALSE, raised |-> FALSE]
               [] prof = "ApiException_401" ->
                    [u |-> UpstoxLog(called, "GET_PROFILE", "API_EXCEPTION"),
                     found |-> FALSE, raised |-> TRUE]
               [] prof = "ApiException_500" ->
                    [u |-> UpstoxLog(called, "GET_PROFILE", "API_EXCEPTION"),
                     found |-> FALSE, raised |-> FALSE]
               [] OTHER ->
                    [u |-> UpstoxLog(called, "GET_PROFILE", "FAILURE"),
                     found |-> FALSE, raised |-> FALSE]

(* lines 198-208: the stored token is cleared in the except clauses only,  *)
(* that is when get_profile raised                                         *)
UpstoxClearToken(validated) ==
    IF validated.raised
    THEN [UpstoxLog(validated.u, "LOGIN", "INFO") EXCEPT !.access_token = Nil,
                                                         !.sdk_token = Nil]
    ELSE validated.u

(* login, lines 180-218 *)
UpstoxLoginCall(u, auth_code_override, prof, gen, io) ==
    LET load == UpstoxLoadAccessTokenData(u)
        stored == UpstoxSetSdkAccessToken(
                      [load.u EXCEPT !.access_token = load.data.access_token,
                                     !.user_id = load.data.user_id],
                      load.data.access_token)
        validated == UpstoxGetProfile(stored, TRUE, prof)
        failed == IF load.loaded THEN UpstoxClearToken(validated) ELSE load.u
    IN  IF load.loaded /\ validated.found
        THEN [UpstoxLog(validated.u, "LOGIN", "SUCCESS") EXCEPT !.ret = validated.u.access_token]
        ELSE IF auth_code_override # Nil
        THEN UpstoxGenerateSession(UpstoxLog(failed, "LOGIN", "INFO"), auth_code_override, gen, io)
        ELSE [UpstoxLog(failed, "LOGIN", "PROMPT_AUTH") EXCEPT !.ret = Nil]

(* __init__, lines 27-44 *)
NewUpstox(file, api_secret) ==
    [op |-> "init", arg |-> Nil, ret |-> Nil, n |-> 0,
     file |-> file, api_secret |-> api_secret,
     access_token |-> Nil, user_id |-> Nil, sdk_token |-> Nil,
     emitted |-> <<[action |-> "INIT_UPSTOX_API", status |-> "SUCCESS"]>>,
     sdk |-> <<>>]

UpstoxEnter(op, arg) == [upstox EXCEPT !.op = op, !.arg = arg, !.n = @ + 1, !.ret = Nil]

InitUpstox ==
    /\ NoEngine
    /\ kite = NotConstructed
    /\ tlog = NotConstructed
    /\ live = NotConstructed
    /\ \E f \in FileSet, s \in {Nil, ConfigApiSecret} : upstox = NewUpstox(f, s)

UpstoxLogin ==
    /\ upstox.n < MaxUpstoxCalls
    /\ \E code \in {Nil, AuthCode}, prof \in UpstoxProfileAnswers,
          gen \in UpstoxSessionAnswers, io \in IoSet :
          upstox' = UpstoxLoginCall(UpstoxEnter("login", code), code, prof, gen, io)
    /\ UNCHANGED <<engine_vars, kite, tlog, live>>

(* the guarded operations with their logged action, the SDK method they    *)
(* call and what they return when that call raises                         *)
UpstoxGuardedOps ==
    { [op |-> "get_positions", action |-> "GET_POSITIONS", fn |-> "get_positions", failed |-> "empty"],
      [op |-> "get_holdings", action |-> "GET_HOLDINGS", fn |-> "get_holdings", failed |-> "empty"],
      [op |-> "place_order", action |-> "PLACE_ORDER", fn |-> "place_order", failed |-> Nil],
      [op |-> "modify_order", action |-> "MODIFY_ORDER", fn |-> "modify_order", failed |-> Nil],
      [op |-> "cancel_order", action |-> "CANCEL_ORDER", fn |-> "cancel_order", failed |-> Nil],
      [op |-> "get_order_history", action |-> "GET_ORDER_HISTORY", fn |-> "get_order_details", failed |-> Nil] }

(* lines 261-538: each operation returns None at once when access_token is *)
(* unset, and calls the SDK otherwise                                      *)
UpstoxGuarded(u, g, answer) ==
    IF u.access_token = Nil
    THEN [UpstoxLog(u, g.action, "FAILURE") EXCEPT !.ret = Nil]
    ELSE LET called == UpstoxSdk(u, g.fn, answer)
         IN  CASE answer = "ok" -> [UpstoxLog(called, g.action, "SUCCESS") EXCEPT !.ret = "result"]
               [] answer = "ApiException" ->
                    [UpstoxLog(called, g.action, "API_EXCEPTION") EXCEPT !.ret = g.failed]
               [] OTHER -> [UpstoxLog(called, g.action, "FAILURE") EXCEPT !.ret = g.failed]

UpstoxGuardedCall ==
    /\ upstox.n < MaxUpstoxCalls
    /\ \E g \in UpstoxGuardedOps, answer \in UpstoxCallAnswers :
          upstox' = UpstoxGuarded(UpstoxEnter(g.op, Nil), g, answer)
    /\ UNCHANGED <<engine_vars, kite, tlog, live>>

NextUpstox == UpstoxLogin \/ UpstoxGuardedCall

SpecUpstox == InitUpstox /\ [][NextUpstox]_vars

(* ---------------- main.py: square_off_all_mis_positions ---------------- *)
(* The variable live holds the live-trading flow of main.py: the broker's  *)
(* access token as main.py sees it, the get_positions and place_order      *)
(* calls made on the broker (with the answers the broker gave), and the    *)
(* actions passed to logger.log_trade.  The broker is whichever API        *)
(* ACTIVE_BROKER names; its answers are any the API can give: place_order  *)
(* returns an order id or None (kite_connect.py 183-199, upstox_api.py     *)
(* 356-412) or raises (UpstoxAPI.place_order takes no variety, exchange or *)
(* tradingsymbol keyword, so the call of line 256 raises TypeError).       *)
MaxPositions == 2

ProductSet == { "MIS", "CNC" }

QuantitySet == { 0 - 2, 0, 3 }

SymbolSet == { "INFY", "TCS" }

(* one entry of positions_data['net'], with the keys both brokers supply *)
NetPosition(tradingsymbol, product, quantity) ==
    [tradingsymbol |-> tradingsymbol, exchange |-> "NSE", product |-> product,
     quantity |-> quantity]

NetPositionSet ==
    { NetPosition(s, p, q) : s \in SymbolSet, p \in ProductSet, q \in QuantitySet }

NetSet == UNION { [1..n -> NetPositionSet] : n \in 0..MaxPositions }

(* what broker_api.get_positions() answers: None, a dictionary, or raises *)
PositionsData(kind, net) == [kind |-> kind, net |-> net]

PositionsAnswers ==
    { PositionsData("none", <<>>), PositionsData("raised", <<>>) }
    \cup { PositionsData("dict", net) : net \in NetSet }

(* what broker_api.place_order(...) answers *)
PlaceAnswerSet == { "order_id", "none", "raised" }

Abs(x) == IF x < 0 THEN 0 - x ELSE x

(* logger.log_trade("SYSTEM_SQUARE_OFF", ...) *)
LogSquareOff(l, symbol, action, status) ==
    [l EXCEPT !.logged = Append(@, [symbol |-> symbol, action |-> action, status |-> status])]

SquaresOffLongOnly(pos) == pos.product = "MIS" /\ pos.quantity > 0

(* line 244 *)
SquaresOff(pos) == pos.product = "MIS" /\ pos.quantity # 0

(* line 251 *)
TransactionType(pos) == IF pos.quantity > 0 THEN "SELL" ELSE "BUY"

(* lines 256-265: the place_order call for net position number i *)
PlaceOrder(l, i, pos, answer) ==
    [l EXCEPT !.orders = Append(@, [pos |-> i,
                                    variety |-> "regular",
                                    exchange |-> pos.exchange,
                                    tradingsymbol |-> pos.tradingsymbol,
                                    transaction_type |-> TransactionType(pos),
                                    quantity |-> Abs(pos.quantity),
                                    product |-> "MIS",
                                    order_type |-> "MARKET",
                                    answer |-> answer])]

(* lines 243-274: the loop over positions_data['net'], from entry i on *)
RECURSIVE SquareOffLoop(_, _, _, _)
SquareOffLoop(l, net, answers, i) ==
    IF i > Len(net) THEN l
    ELSE IF SquaresOff(net[i])
    THEN LET found == [l EXCEPT !.mis_positions_found = @ + 1]
             placed == PlaceOrder(found, i, net[i], answers[i])
             status == CASE answers[i] = "order_id" -> "PLACED"
                         [] answers[i] = "none" -> "FAILURE"
                         [] OTHER -> "EXCEPTION"
         IN  SquareOffLoop(LogSquareOff(placed, net[i].tradingsymbol,
                                        TransactionType(net[i]), status),
                           net, answers, i + 1)
    ELSE SquareOffLoop(l, net, answers, i + 1)

(* square_off_all_mis_positions, lines 223-284 *)
SquareOffAllMisPositions(l, positions_data, answers) ==
    LET entered == [l EXCEPT !.square_offs = @ + 1, !.mis_positions_found = 0]
        started == LogSquareOff(entered, "-", "INITIATE_SQUARE_OFF", "INFO")
        fetched == [started EXCEPT !.fetches = Append(@, positions_data)]
    IN  IF l.access_token = Nil
        THEN LogSquareOff(entered, "-", "SQUARE_OFF_FAIL", "FAILURE")
        ELSE IF positions_data.kind = "raised"
        THEN LogSquareOff(fetched, "-", "FETCH_POS_FAIL_SQ", "ERROR")
        ELSE IF positions_data.kind = "none" \/ positions_data.net = <<>>
        THEN LogSquareOff(fetched, "-", "NO_POSITIONS", "INFO")
        ELSE LET done == SquareOffLoop(fetched, positions_data.net, answers, 1)
             IN  IF done.mis_positions_found = 0
                 THEN LogSquareOff(done, "-", "NO_MIS_POSITIONS", "INFO")
                 ELSE done

(* ACTIVE_BROKER, lines 80 and 109 *)
BrokerSet == { "zerodha", "upstox" }

(* the flow's state: broker_api is the API ACTIVE_BROKER names, with the   *)
(* access_token given; login_ret is the local variable access_token of     *)
(* run_live_trading_flow; tracking_fetches counts the get_positions calls  *)
(* of the tracking loop and ended tells how the loop was left              *)
NewLive(broker, access_token) ==
    [op |-> "new", broker |-> broker, access_token |-> access_token, login_ret |-> Nil,
     iterations |-> 0, tracking_fetches |-> 0, ended |-> "no",
     fetches |-> <<>>, orders |-> <<>>, logged |-> <<>>,
     square_offs |-> 0, mis_positions_found |-> 0]

(* a broker API, logged in or not, on which nothing has been called yet *)
InitSquareOff ==
    /\ NoEngine
    /\ kite = NotConstructed
    /\ tlog = NotConstructed
    /\ upstox = NotConstructed
    /\ \E b \in BrokerSet, t \in {Nil, "token_a"} : live = NewLive(b, t)

SquareOffCall ==
    /\ live.op = "new"
    /\ \E positions_data \in PositionsAnswers :
       \E answers \in [1..Len(positions_data.net) -> PlaceAnswerSet] :
          live' = [SquareOffAllMisPositions(live, positions_data, answers)
                       EXCEPT !.op = "square_off"]
    /\ UNCHANGED <<engine_vars, kite, tlog, upstox>>

NextSquareOff == SquareOffCall

SpecSquareOff == InitSquareOff /\ [][NextSquareOff]_vars

(* -------------------- main.py: run_live_trading_flow ------------------- *)
max_tracking_iterations == 20

(* line 156 *)
LoopContinuesOnceMore(iterations) == iterations <= max_tracking_iterations

LoopContinues(iterations) == iterations < max_tracking_iterations

(* what broker_api.login(...) leaves behind: the value it returns and the  *)
(* broker's access_token.  A successful login returns the broker's token;  *)
(* a failed one returns None, and UpstoxAPI.login can then leave the       *)
(* stored token in place (upstox_api.py 189-208)                           *)
LoginOutcomes(broker) ==
    { [ret |-> "token_a", access_token |-> "token_a"], [ret |-> Nil, access_token |-> Nil] }
    \cup IF broker = "upstox" THEN { [ret |-> Nil, access_token |-> "token_a"] } ELSE {}

(* what the user does at the input() prompt of lines 97 and 126 *)
PromptSet == { "KeyboardInterrupt", "empty", "code" }

(* the get_positions answers drawn for the square-off that ends the flow *)
FlowPositionsAnswers == { d \in PositionsAnswers : Len(d.net) <= 1 }

LogLive(l, action, status) == LogSquareOff(l, "-", action, status)

InitLive ==
    /\ NoEngine
    /\ kite = NotConstructed
    /\ tlog = NotConstructed
    /\ upstox = NotConstructed
    /\ \E b \in BrokerSet : live = [NewLive(b, Nil) EXCEPT !.op = "flow_start"]

(* lines 75-144 and 214-216: the broker is constructed and login() called; *)
(* a failed login prompts for a code and calls login() again with it; then *)
(* line 142 branches on the value the last login returned                  *)
LiveLogin ==
    /\ live.op = "flow_start"
    /\ \E first \in LoginOutcomes(live.broker), prompt \in PromptSet,
          second \in LoginOutcomes(live.broker) :
          LET started == LogLive(live, "APP_START_LIVE", "SUCCESS")
              final == IF first.ret # Nil THEN first ELSE second
              done == [started EXCEPT !.login_ret = final.ret,
                                      !.access_token = final.access_token]
          IN  live' =
                IF first.ret = Nil /\ prompt # "code"
                THEN [LogLive([started EXCEPT !.access_token = first.access_token],
                              "APP_EXIT_LIVE",
                              IF prompt = "empty" THEN "FAILURE" ELSE "ABORTED")
                          EXCEPT !.op = "exited"]
                ELSE IF final.ret # Nil
                THEN [LogLive(done, "LOGIN_LIVE", "SUCCESS") EXCEPT !.op = "logged_in"]
                ELSE [LogLive(LogLive(done, "LOGIN_LIVE_FAIL", "FAILURE"),
                              "APP_END_LIVE", "SUCCESS")
                          EXCEPT !.op = "finished"]
    /\ UNCHANGED <<engine_vars, kite, tlog, upstox>>

(* line 147: run_manual_tests(broker_api), outside the try of line 150.    *)
(* Its second call is broker_api.get_margins() (line 42), which UpstoxAPI  *)
(* does not have: the AttributeError leaves run_live_trading_flow.  So     *)
(* does a Ctrl+C during the tests                                          *)
LiveManualTests ==
    /\ live.op = "logged_in"
    /\ \E interrupted \in BOOLEAN :
          live' = [live EXCEPT !.op = IF live.broker = "upstox" \/ interrupted
                                      THEN "crashed" ELSE "tracking"]
    /\ UNCHANGED <<engine_vars, kite, tlog, upstox>>

(* lines 156-206: one pass of the while loop, or the loop's end.  A pass   *)
(* is cut short by Ctrl+C (before or after its get_positions call) or by   *)
(* an exception raised while the positions are fetched and printed         *)
LiveTrackingStep ==
    /\ live.op = "tracking"
    /\ \/ /\ LoopContinues(live.iterations)
          /\ \E event \in { "none", "KeyboardInterrupt_early", "KeyboardInterrupt", "Exception" } :
                LET fetched == [live EXCEPT !.iterations = @ + 1,
                                            !.tracking_fetches =
                                                IF event = "KeyboardInterrupt_early"
                                                THEN @ ELSE @ + 1]
                IN  live' =
                      CASE event = "none" -> fetched
                        [] event = "Exception" ->
                             [LogLive(fetched, "TRACKING_ERROR", "ERROR")
                                  EXCEPT !.op = "tracked", !.ended = "Exception"]
                        [] OTHER ->
                             [LogLive(fetched, "TRACKING_STOP_USER", "INFO")
                                  EXCEPT !.op = "tracked", !.ended = "KeyboardInterrupt"]
       \/ /\ ~LoopContinues(live.iterations)
          /\ live' = [live EXCEPT !.op = "tracked", !.ended = "cap"]
    /\ UNCHANGED <<engine_vars, kite, tlog, upstox>>

(* lines 208-220 *)
LiveSquareOff ==
    /\ live.op = "tracked"
    /\ \E positions_data \in FlowPositionsAnswers :
       \E answers \in [1..Len(positions_data.net) -> PlaceAnswerSet] :
          LET squared == IF live.access_token # Nil
                         THEN SquareOffAllMisPositions(live, positions_data, answers)
                         ELSE live
          IN  live' = [LogLive(squared, "APP_END_LIVE", "SUCCESS") EXCEPT !.op = "finished"]
    /\ UNCHANGED <<engine_vars, kite, tlog, upstox>>

NextLive == LiveLogin \/ LiveManualTests \/ LiveTrackingStep \/ LiveSquareOff

SpecLive == InitLive /\ [][NextLive]_vars

(* ------------------------------ claims --------------------------------- *)
LastTrade == trades[Len(trades)]

(* C1: every summary a run emits reports capital_end = initial_capital +   *)
(* the sum of the closed trades' pnl + unrealized_pnl.                     *)
C1_CapitalConservation ==
    \A k \in 1..Len(summaries) :
        summaries[k].capital_end =
            cfg.initial_capital + summaries[k].realized_pnl + summaries[k].unrealized_pnl

(* C2: in run(), a BUY filled while flat leaves the run going, and on a    *)
(* later bar where the position is still open and no stop-loss or target   *)
(* is hit the strategy is asked, and its SELL closes the whole position as *)
(* one ClosedTrade from the BUY fill price to the SELL fill price.         *)
C2_BuyThenSellClosesInRun ==
    [][ /\ (pc = "loop" /\ positions = <<>> /\ positions' # <<>>) => pc' # "raised"
        /\ (pc = "loop" /\ positions # <<>> /\ ExitReason(positions[1], data[bar]) = "")
              => /\ last'.polled
                 /\ last'.signal.action = "SELL"
                       => /\ positions' = <<>>
                          /\ trades' = Append(trades, trades'[Len(trades')])
                          /\ trades'[Len(trades')].entry_price = positions[1].avg_price
                          /\ trades'[Len(trades')].qty = cfg.qty_per_trade
                          /\ trades'[Len(trades')].exit_price * 100 =
                                SignalPrice(last'.signal, data[bar]) * (100 - cfg.slippage_percent)
      ]_vars

(* C3: in run() with pyramiding allowed and max_pyramid_entries > 1, on a  *)
(* bar where the open position has fewer entries than the cap (and is not  *)
(* closed by the risk check) the strategy is asked, and an affordable BUY  *)
(* adds qty_per_trade and one entry.                                       *)
C3_PyramidingPolledWhileLong ==
    [][ ( /\ pc = "loop"
          /\ cfg.allow_pyramiding /\ cfg.max_pyramid_entries > 1
          /\ positions # <<>>
          /\ positions[1].num_entries < cfg.max_pyramid_entries
          /\ ExitReason(positions[1], data[bar]) = "" )
        => /\ last'.polled
           /\ ( /\ last'.signal.action = "BUY"
                /\ BuyCost(cfg, last'.signal, data[bar]) <= current_capital )
              => /\ positions' # <<>>
                 /\ positions'[1].qty = positions[1].qty + cfg.qty_per_trade
                 /\ positions'[1].num_entries = positions[1].num_entries + 1
      ]_vars

(* C4, as claimed: a loop iteration whose risk check closed the position   *)
(* does not ask the strategy and ends flat.                                *)
C4_NoPollAfterRiskExit ==
    (last.op = "bar" /\ last.riskExit) => (~last.polled /\ positions = <<>>)

(* C4, amended: a loop iteration whose risk check closed the position      *)
(* finds the engine flat at the strategy gate and does ask the strategy on *)
(* that same bar; the iteration ends with a position only if the answer    *)
(* was a BUY, and that position is a new one entered on this bar.          *)
C4_PollAfterRiskExit ==
    (last.op = "bar" /\ last.riskExit)
        => /\ last.polled
           /\ positions # <<>>
                 => /\ last.signal.action = "BUY"
                    /\ positions[1].entry_time = last.ts
                    /\ positions[1].num_entries = 1

C4_Witness ==
    /\ last.op = "bar" /\ last.riskExit /\ last.polled
    /\ positions # <<>>
    /\ LastTrade.exit_time = last.ts

(* C5: a risk check of a position with both levels set, on a bar whose low *)
(* reaches the stop-loss and whose high reaches the target, records        *)
(* exactly one ClosedTrade, with reason STOP_LOSS_HIT and the exit price   *)
(* derived from the stop-loss.                                             *)
C5_StopLossBeforeTarget ==
    [][ ( /\ last'.op = "check"
          /\ positions # <<>>
          /\ positions[1].stop_loss # None /\ positions[1].target # None
          /\ last'.b.low <= positions[1].stop_loss
          /\ last'.b.high >= positions[1].target )
        => /\ Len(trades') = Len(trades) + 1
           /\ total_trades' = total_trades + 1
           /\ trades'[Len(trades')].exit_reason = "STOP_LOSS_HIT"
           /\ trades'[Len(trades')].exit_time = last'.ts
           /\ trades'[Len(trades')].exit_price * 100 =
                 positions[1].stop_loss * (100 - cfg.slippage_percent)
      ]_vars

C5_Witness ==
    /\ last.op = "check" /\ last.riskExit
    /\ last.before[1].stop_loss # None /\ last.before[1].target # None
    /\ last.b.low <= last.before[1].stop_loss
    /\ last.b.high >= last.before[1].target
    /\ LastTrade.exit_reason = "STOP_LOSS_HIT"

(* C6: after every BUY handed to _execute_signal (first entry or pyramid   *)
(* entry, filled or rejected) current_capital >= 0.                        *)
C6_NoNegativeCapital ==
    (last.op = "execute" /\ last.signal.action = "BUY") => current_capital >= 0

C6_Witness ==
    /\ last.op = "execute" /\ last.signal.action = "BUY" /\ last.raised
    /\ last.before # <<>>
    /\ positions[1].num_entries = 2
    /\ current_capital < BuyCost(cfg, last.signal, last.b)

C8_InsufficientFundsRejected ==
    [][ ( /\ pc = "loop" /\ positions = <<>>
          /\ last'.op = "bar" /\ last'.polled /\ last'.signal.action = "BUY"
          /\ BuyCost(cfg, last'.signal, data[bar]) > current_capital )
        => /\ positions' = <<>>
           /\ current_capital' = current_capital
           /\ trades' = trades
           /\ total_trades' = total_trades
           /\ winning_trades' = winning_trades
           /\ losing_trades' = losing_trades
           /\ log' = Append(log, LogRec("BUY", "REJECTED"))
           /\ ~last'.raised
           /\ IF bar < Len(data) THEN pc' = "loop" /\ bar' = bar + 1 ELSE pc' = "summary"
      ]_vars

C8_Witness ==
    /\ cfg.initial_capital = Money(100) /\ current_capital = Money(100)
    /\ last.op = "bar" /\ last.ts = 2
    /\ log = <<LogRec("INIT", "INFO"), LogRec("BUY", "REJECTED")>>
    /\ positions = <<>> /\ trades = <<>>

(* C9: a risk check of a position with a stop-loss, on a bar whose low     *)
(* reaches it, closes the whole position with reason STOP_LOSS_HIT at      *)
(* apply_slippage(stop_loss, SELL), and the engine is flat afterwards.     *)
C9_StopLossExit ==
    ( /\ last.op = "check"
      /\ last.before # <<>>
      /\ last.before[1].stop_loss # None
      /\ last.b.low <= last.before[1].stop_loss )
    => /\ positions = <<>>
       /\ trades # <<>>
       /\ LastTrade.exit_reason = "STOP_LOSS_HIT"
       /\ LastTrade.exit_time = last.ts
       /\ LastTrade.qty = last.before[1].qty
       /\ LastTrade.exit_price * 100 =
             last.before[1].stop_loss * (100 - cfg.slippage_percent)

C9_Witness ==
    /\ last.op = "check" /\ last.riskExit
    /\ cfg.slippage_percent = 0
    /\ last.before[1].stop_loss = Price(98) /\ last.before[1].target = None
    /\ last.b.low = Price(95)
    /\ LastTrade.exit_reason = "STOP_LOSS_HIT" /\ LastTrade.exit_price = Price(98)

(* C10: a position opened by a BUY that carries no sl_price (tp_price)     *)
(* while stop_loss_percent (target_percent) is configured has its          *)
(* stop_loss (target) set to that percentage below (above) the entry price.*)
C10_DefaultRiskLevels ==
    (last.signal.action = "BUY" /\ last.raised /\ last.before = <<>>)
        => /\ (last.signal.sl_price = None /\ cfg.stop_loss_percent # None)
                 => positions[1].stop_loss * 100 =
                       positions[1].avg_price * (100 - cfg.stop_loss_percent)
           /\ (last.signal.tp_price = None /\ cfg.target_percent # None)
                 => positions[1].target * 100 =
                       positions[1].avg_price * (100 + cfg.target_percent)

(* C11: whenever a position is closed, by a SELL signal or by the risk      *)
(* check, the capital grows by exit_price * qty less the exit fee, the      *)
(* trade's pnl is (exit_price - avg_price) * qty less the exit fee only     *)
(* (the entry fee is not charged again), and its entry_price is the         *)
(* position's avg_price.                                                    *)
C11_CloseAccounting ==
    [][Len(trades') # Len(trades) =>
         LET pos      == positions[1]
             t        == trades'[Len(trades')]
             proceeds == t.exit_price * pos.qty * 100
             exit_fee == (proceeds * cfg.brokerage_percent) \div 100
         IN  /\ current_capital' = current_capital + proceeds - exit_fee
             /\ t.pnl = (t.exit_price - pos.avg_price) * pos.qty * 100 - exit_fee
             /\ t.entry_price = pos.avg_price]_vars

C11_Witness ==
    /\ last.op = "execute" /\ last.signal.action = "SELL" /\ last.before # <<>>
    /\ cfg.brokerage_percent > 0
    /\ Len(trades) = 1
    /\ LastTrade.pnl < (LastTrade.exit_price - LastTrade.entry_price) * LastTrade.qty * 100
    /\ LastTrade.exit_price > LastTrade.entry_price

(* C12: total_trades = winning_trades + losing_trades = the number of       *)
(* closed trades in every state; a step that closes a position adds one     *)
(* trade, one to total_trades and one to winning_trades if the trade's pnl  *)
(* is positive, otherwise one to losing_trades (a pnl of zero counts as a   *)
(* loss); a step that closes nothing leaves the three counters unchanged.   *)
C12_TradeCounters ==
    /\ [](total_trades = winning_trades + losing_trades /\ total_trades = Len(trades))
    /\ [][IF Len(trades') # Len(trades)
          THEN /\ Len(trades') = Len(trades) + 1
               /\ total_trades' = total_trades + 1
               /\ IF trades'[Len(trades')].pnl > 0
                  THEN winning_trades' = winning_trades + 1 /\ losing_trades' = losing_trades
                  ELSE winning_trades' = winning_trades /\ losing_trades' = losing_trades + 1
          ELSE UNCHANGED <<total_trades, winning_trades, losing_trades>>]_vars

C12_Witness ==
    /\ last.op = "check" /\ last.riskExit
    /\ Len(trades) = 1 /\ LastTrade.pnl = 0
    /\ losing_trades = 1 /\ winning_trades = 0 /\ total_trades = 1

(* C18: a close is always of the whole position: the step that appends a    *)
(* trade found an open position, the trade's qty is that position's qty     *)
(* as it was before the close, and the engine is flat afterwards; no step   *)
(* lowers an open position's qty while leaving it open.                     *)
C18_FullPositionClose ==
    [][/\ Len(trades') # Len(trades) =>
            /\ positions # <<>>
            /\ trades' = Append(trades, trades'[Len(trades')])
            /\ trades'[Len(trades')].qty = positions[1].qty
            /\ positions' = <<>>
       /\ (positions # <<>> /\ positions' # <<>>) => positions'[1].qty >= positions[1].qty
      ]_vars

C18_Witness ==
    /\ Len(trades) = 1 /\ positions = <<>>
    /\ last.before # <<>> /\ last.before[1].num_entries = 2
    /\ LastTrade.qty = 2 * cfg.qty_per_trade

(* C19: avg_price * qty of the open position is the sum of fill_price *     *)
(* fill_qty over its fills, stated fill by fill: the first fill leaves      *)
(* avg_price * qty = fill_price * fill_qty, every pyramided fill adds its   *)
(* own fill_price * fill_qty to the product and its fill_qty to qty, no     *)
(* other step changes the product, and the trade recorded at the close      *)
(* carries that avg_price as its entry_price.                               *)
C19_WeightedAverageEntry ==
    [][LET sig        == last'.signal
           signal_px  == IF sig.price = None THEN last'.b.close ELSE sig.price
           fill_price == signal_px + (signal_px * cfg.slippage_percent) \div 100
           fill_qty   == cfg.qty_per_trade
       IN  /\ (positions = <<>> /\ positions' # <<>>) =>
                 /\ positions'[1].qty = fill_qty
                 /\ positions'[1].avg_price * positions'[1].qty = fill_price * fill_qty
           /\ (positions # <<>> /\ positions' # <<>>) =>
                 IF positions'[1].num_entries # positions[1].num_entries
                 THEN /\ positions'[1].num_entries = positions[1].num_entries + 1
                      /\ positions'[1].qty = positions[1].qty + fill_qty
                      /\ positions'[1].avg_price * positions'[1].qty
                            = positions[1].avg_price * positions[1].qty
                              + fill_price * fill_qty
                 ELSE /\ positions'[1].qty = positions[1].qty
                      /\ positions'[1].avg_price = positions[1].avg_price
           /\ Len(trades') # Len(trades) =>
                 trades'[Len(trades')].entry_price = positions[1].avg_price]_vars

C19_Witness ==
    /\ Len(trades) = 1
    /\ last.before # <<>> /\ last.before[1].num_entries = 2
    /\ last.before[1].entry_time = 1
    /\ LastTrade.entry_price = last.before[1].avg_price
    /\ 2 * LastTrade.entry_price = Price(100) + Price(103)

(* C20: a BUY handed to _execute_signal while a position is open, with      *)
(* pyramiding disallowed or the position already at max_pyramid_entries,    *)
(* is dropped: the position, the capital, the trade list and the counters   *)
(* stay as they were, nothing is logged (no fill, no rejection) and the     *)
(* call returns normally.                                                   *)
C20_BlockedBuyIgnored ==
    [][(/\ last'.op = "execute" /\ last'.signal.action = "BUY"
        /\ positions # <<>> /\ positions[1].entry_type = "LONG"
        /\ \/ ~cfg.allow_pyramiding
           \/ positions[1].num_entries >= cfg.max_pyramid_entries)
       => /\ UNCHANGED <<positions, current_capital, trades, total_trades,
                         winning_trades, losing_trades, log>>
          /\ ~last'.raised]_vars

C20_Witness ==
    /\ last.op = "execute" /\ last.signal.action = "BUY"
    /\ cfg.allow_pyramiding /\ cfg.max_pyramid_entries = 2
    /\ last.before # <<>> /\ last.before[1].num_entries = 2
    /\ positions = last.before
    /\ current_capital >= BuyCost(cfg, last.signal, last.b)
    /\ ~last.raised

(* C14: whatever qty_per_trade the caller passes to the constructor, no     *)
(* reachable state has an open position with qty <= 0 (a non-positive       *)
(* qty_per_trade is to be refused at construction).                         *)
C14_PositiveQtyOnly == positions # <<>> => positions[1].qty > 0

(* the failures of data validation: the source cannot be read as a table,   *)
(* is empty, lacks the timestamp or an OHLC column, holds timestamps that   *)
(* cannot be parsed, or has no row in [start_date, end_date]                *)
InvalidData ==
    \/ source.kind # "frame"
    \/ source.rows = <<>>
    \/ ~source.has_timestamp
    \/ ~source.has_ohlc
    \/ ~source.parsable
    \/ \A i \in 1..Len(source.rows) :
          \/ source.rows[i].timestamp < source.start_date
          \/ source.rows[i].timestamp > source.end_date

C15_NoLookahead ==
    last.polled => last.history = SubSeq(data, 1, last.index)

(* C16: the table the loop iterates is in non-decreasing time order, lies   *)
(* within [start_date, end_date] and holds each timestamp once, so its      *)
(* timestamps are strictly increasing.                                      *)
C16_SortedUniqueInWindow ==
    pc # "new" =>
        /\ \A i \in 1..Len(data) :
              source.start_date <= data[i].timestamp /\ data[i].timestamp <= source.end_date
        /\ \A i, j \in 1..Len(data) : i < j => data[i].timestamp < data[j].timestamp

(* C17: a backtest comes out the same every time it is run on the same      *)
(* bars with the same configuration and the same strategy object, whether   *)
(* the strategy is fresh or was used by an earlier backtest: when a run     *)
(* has ended, its trade list and summary (and whether it returned at all)   *)
(* equal those of every earlier run.                                        *)
C17_Determinism ==
    pc \in {"returned", "raised"} =>
        \A i \in 1..Len(outcomes) : outcomes[i] = Outcome

(* C21: every run() that processes bars hands the logger exactly one        *)
(* summary, after its last bar: while a run is in its loop the summaries    *)
(* number one less than the runs entered, when it has ended they number     *)
(* the runs entered, and the summary of a run that has returned carries     *)
(* the engine's three counters and the sum of the closed trades' pnl.       *)
C21_SummaryOncePerRun ==
    data # <<>> =>
        /\ pc \in {"loop", "summary"} => Len(summaries) = runs - 1
        /\ pc \in {"returned", "raised"} => Len(summaries) = runs
        /\ (pc = "returned" /\ summaries # <<>>) =>
              LET s == summaries[Len(summaries)]
              IN  /\ s.trades_count = total_trades
                  /\ s.winning_trades = winning_trades
                  /\ s.losing_trades = losing_trades
                  /\ s.realized_pnl = SumPnl(trades)

(* C22: the summary step values an open position without closing it: the   *)
(* unrealized_pnl it reports is 0 when the engine is flat and otherwise     *)
(* (close of the last bar - avg_price) * qty of the open position, and the  *)
(* step leaves the position, the trade list, the counters and               *)
(* current_capital as they were.                                            *)
C22_OpenPositionValuedNotClosed ==
    [][pc = "summary" =>
         /\ Len(summaries') = Len(summaries) + 1
         /\ summaries'[Len(summaries')].unrealized_pnl =
               IF positions = <<>> THEN 0
               ELSE (data[Len(data)].close - positions[1].avg_price)
                       * positions[1].qty * 100
         /\ UNCHANGED <<positions, trades, total_trades, winning_trades,
                        losing_trades, current_capital>>]_vars

C22_Witness ==
    /\ pc = "returned" /\ last.op = "summary"
    /\ positions # <<>>
    /\ summaries # <<>>
    /\ summaries[Len(summaries)].unrealized_pnl > 0
    /\ trades = <<>>

C29_PyramidRiskLevels ==
    [][(/\ positions # <<>> /\ positions' # <<>>
        /\ positions'[1].num_entries = positions[1].num_entries + 1)
       => /\ last'.op = "execute" /\ last'.signal.action = "BUY"
          /\ positions'[1].stop_loss =
                IF last'.signal.sl_price # None THEN last'.signal.sl_price
                ELSE positions[1].stop_loss
          /\ positions'[1].target =
                IF last'.signal.tp_price # None THEN last'.signal.tp_price
                ELSE positions[1].target
          /\ positions'[1].entry_time = positions[1].entry_time]_vars

C29_Witness ==
    /\ last.op = "execute" /\ last.signal.action = "BUY"
    /\ last.before # <<>> /\ positions # <<>>
    /\ positions[1].num_entries = 2 /\ last.before[1].num_entries = 1
    /\ last.signal.sl_price = None /\ last.before[1].stop_loss = Price(98)
    /\ positions[1].stop_loss = Price(98)
    /\ last.signal.tp_price = Price(104) /\ last.before[1].target = None
    /\ positions[1].target = Price(104)
    /\ positions[1].entry_time = 1 /\ last.ts = 2

(* C30: when _check_sl_tp runs on a bar with a position open whose          *)
(* stop-loss is not hit (unset, or the bar's low above it): if the target   *)
(* is set and the bar's high reaches it, the whole position is closed on    *)
(* that bar in one trade with exit_reason TARGET_HIT and exit_price the     *)
(* target less the SELL slippage; if the target is unset or not reached,    *)
(* the position, the capital and the trade list are unchanged.              *)
C30_TargetExit ==
    [][(/\ last'.op \in {"check", "bar"} /\ positions # <<>>
        /\ \/ positions[1].stop_loss = None
           \/ last'.b.low > positions[1].stop_loss)
       => LET pos == positions[1]
          IN  IF pos.target # None /\ last'.b.high >= pos.target
              THEN /\ last'.riskExit
                   /\ Len(trades') = Len(trades) + 1
                   /\ LET t == trades'[Len(trades')]
                      IN  /\ t.exit_reason = "TARGET_HIT"
                          /\ t.exit_price
                               = pos.target - (pos.target * cfg.slippage_percent) \div 100
                          /\ t.qty = pos.qty
                          /\ t.exit_time = last'.ts
                   /\ last'.op = "check" => positions' = <<>>
              ELSE /\ ~last'.riskExit
                   /\ last'.op = "check" =>
                        UNCHANGED <<positions, current_capital, trades>>]_vars

C30_Witness ==
    /\ last.op = "check" /\ last.riskExit /\ positions = <<>>
    /\ Len(trades) = 1 /\ LastTrade.exit_reason = "TARGET_HIT"
    /\ last.before[1].stop_loss # None /\ last.b.low > last.before[1].stop_loss
    /\ last.b.high > last.before[1].target
    /\ cfg.slippage_percent > 0
    /\ LastTrade.exit_price < last.before[1].target

(* the SDK calls of method fn the last operation made *)
SdkCalls(k, fn) == { i \in DOMAIN k.sdk : k.sdk[i].fn = fn }

(* the token file holds a dictionary with an access token *)
HasStoredToken(k) == k.file.kind = "json" /\ k.file.data.access_token # Nil

(* the last operation fetched the profile and the fetch answered kind *)
ProfileFetch(k, kind) ==
    \E i \in SdkCalls(k, "profile") : k.sdk[i].answer.kind = kind

C24_ExpiredTokenFallsThrough ==
    [][(/\ kite'.op = "login"
        /\ kite'.arg # Nil
        /\ kite.ZERODHA_API_SECRET # Nil
        /\ HasStoredToken(kite)
        /\ ProfileFetch(kite', "TokenException"))
       => /\ kite'.raised = Nil
          /\ Cardinality(SdkCalls(kite', "generate_session")) = 1
          /\ Cardinality(SdkCalls(kite', "profile")) = 1
          /\ \E i \in SdkCalls(kite', "generate_session") :
                LET call == kite'.sdk[i]
                IN  /\ call.a = kite'.arg
                    /\ call.b = kite.ZERODHA_API_SECRET
                    /\ IF call.answer.kind = "ok" /\ call.answer.access_token # Nil
                       THEN /\ kite'.ret = call.answer.access_token
                            /\ kite'.access_token = call.answer.access_token
                            /\ kite'.kite_token = call.answer.access_token
                       ELSE /\ kite'.ret = Nil
                            /\ kite'.access_token = kite.access_token]_vars

C24_Witness ==
    /\ kite.op = "login"
    /\ kite.arg = OverrideRequestToken
    /\ ProfileFetch(kite, "TokenException")
    /\ \E i \in SdkCalls(kite, "set_access_token") : kite.sdk[i].a = "token_a"
    /\ \E i \in SdkCalls(kite, "generate_session") :
          kite.sdk[i].a = OverrideRequestToken /\ kite.sdk[i].b = ConfigApiSecret
    /\ kite.ret = "token_b"
    /\ kite.access_token = "token_b"
    /\ kite.kite_token = "token_b"

(* C25: a login() call that returned an access token has handed the logger *)
(* a record with action LOGIN and status SUCCESS that names the logged-in  *)
(* user, whether the stored token was reused or a session was generated.   *)
C25_LoginSuccessLogged ==
    (kite.op = "login" /\ kite.ret # Nil)
        => \E i \in DOMAIN kite.emitted :
              /\ kite.emitted[i].action = "LOGIN"
              /\ kite.emitted[i].status = "SUCCESS"
              /\ kite.emitted[i].user = kite.user_id

(* the action name an operation logs under *)
LoggedAction(op) ==
    IF op = "get_profile" THEN "GET_PROFILE"
    ELSE IF op = "place_order" THEN "PLACE_ORDER"
    ELSE (CHOOSE g \in GuardedOps : g[1] = op)[2]

OperationSet == { "get_profile", "place_order" } \cup { g[1] : g \in GuardedOps }

(* C26: when an operation called on a logged-in instance has its SDK call  *)
(* raise, the operation returns None, lets no exception out, leaves        *)
(* access_token unchanged and hands the logger exactly one record, under   *)
(* the operation's action name, whose status is TOKEN_ERROR for a          *)
(* TokenException in get_profile (without force_fetch) or place_order,     *)
(* INPUT_ERROR for an InputException in place_order, and FAILURE for every *)
(* other exception.                                                        *)
C26_SdkErrorContained ==
    [][(/\ kite'.op \in OperationSet
        /\ kite.access_token # Nil
        /\ kite'.sdk # <<>>
        /\ kite'.sdk[1].answer.kind \in ExceptionSet)
       => LET exc == kite'.sdk[1].answer.kind
          IN  /\ kite'.ret = Nil
              /\ kite'.raised = Nil
              /\ kite'.access_token = kite.access_token
              /\ Len(kite'.sdk) = 1
              /\ Len(kite'.emitted) = 1
              /\ kite'.emitted[1].action = LoggedAction(kite'.op)
              /\ kite'.emitted[1].status =
                    IF exc = "TokenException" /\ kite'.op \in {"get_profile", "place_order"}
                    THEN "TOKEN_ERROR"
                    ELSE IF exc = "InputException" /\ kite'.op = "place_order"
                    THEN "INPUT_ERROR"
                    ELSE "FAILURE"]_vars

C26_Witness ==
    /\ kite.op = "place_order"
    /\ kite.access_token = "token_b"
    /\ kite.sdk # <<>>
    /\ kite.sdk[1].answer.kind = "InputException"
    /\ kite.emitted = <<[action |-> "PLACE_ORDER", status |-> "INPUT_ERROR", user |-> Nil]>>
    /\ kite.ret = Nil
    /\ kite.raised = Nil

C31_SellWhileFlatNoOp ==
    [][(last'.op = "bar" /\ last'.polled /\ last'.signal.action = "SELL")
       => /\ positions' = <<>>
          /\ positions = <<>>
             => UNCHANGED <<current_capital, trades, total_trades, winning_trades,
                            losing_trades, log>>
          /\ positions # <<>>
             => /\ last'.riskExit
                /\ Len(trades') = Len(trades) + 1
                /\ trades'[Len(trades')].exit_reason \in {"STOP_LOSS_HIT", "TARGET_HIT"}
                /\ total_trades' = total_trades + 1
          /\ ~last'.raised
          /\ IF bar < Len(data) THEN pc' = "loop" /\ bar' = bar + 1
             ELSE pc' = "summary"]_vars

C31_Witness ==
    /\ last.op = "bar" /\ last.polled /\ last.signal.action = "SELL"
    /\ last.before = <<>>
    /\ positions = <<>>
    /\ trades = <<>>
    /\ current_capital = cfg.initial_capital
    /\ pc = "loop" /\ bar = 2

(* C32: SmaCrossoverStrategy(params) raises at construction when           *)
(* short_window or long_window (after the defaults 20 and 50 for a missing *)
(* key) is not an int, is not positive, or when short_window >=            *)
(* long_window; so a strategy that exists, and every strategy that         *)
(* generate_signals is called on, has integer windows with                 *)
(* 0 < short_window < long_window.  A bool counts as the int it is.        *)
C32_InvalidWindowsRejected ==
    LET short == IF cfg.short_window.type = "absent" THEN Param("int", 20)
                 ELSE cfg.short_window
        long  == IF cfg.long_window.type = "absent" THEN Param("int", 50)
                 ELSE cfg.long_window
        valid == /\ short.type \in {"int", "bool"} /\ long.type \in {"int", "bool"}
                 /\ 0 < short.val /\ short.val < long.val
    IN  /\ pc = "sma_new" => strategy.kind = "none"
        /\ pc = "sma_raised" => ~valid /\ strategy.kind = "none" /\ calls = 0
        /\ pc = "sma_ready"
           => /\ valid
              /\ strategy.kind = "sma"
              /\ strategy.short_window = short.val
              /\ strategy.long_window = long.val
        /\ last.op = "generate" => pc = "sma_ready"

C32_Witness ==
    /\ pc = "sma_raised"
    /\ last.op = "sma_init" /\ last.raised
    /\ cfg.short_window = Param("int", 2)
    /\ cfg.long_window = Param("int", 2)
    /\ strategy.kind = "none"

(* C33: square_off_all_mis_positions on a logged-in broker places, in the  *)
(* order of the net positions it fetched, exactly one MARKET order with    *)
(* product MIS for every net position whose product is MIS and whose       *)
(* quantity is nonzero (SELL for a positive quantity, BUY for a negative   *)
(* one, order quantity = |quantity|) and none for any other position,      *)
(* whatever the earlier placements answered (an order id, None or an       *)
(* exception); on a broker that is not logged in it fetches no positions   *)
(* and places no order.                                                    *)
C33_SquareOffOrders ==
    live.op = "square_off"
    => /\ live.square_offs = 1
       /\ live.access_token = Nil => live.fetches = <<>> /\ live.orders = <<>>
       /\ live.access_token # Nil
          => /\ Len(live.fetches) = 1
             /\ LET net == live.fetches[1].net
                    due == { i \in 1..Len(net) : net[i].product = "MIS" /\ net[i].quantity # 0 }
                IN  /\ Len(live.orders) = Cardinality(due)
                    /\ \A i \in 1..Len(net) :
                          Cardinality({ j \in 1..Len(live.orders) : live.orders[j].pos = i })
                              = IF i \in due THEN 1 ELSE 0
                    /\ \A j \in 1..Len(live.orders) :
                          LET o == live.orders[j]
                              pos == net[o.pos]
                          IN  /\ o.order_type = "MARKET"
                              /\ o.product = "MIS"
                              /\ o.variety = "regular"
                              /\ o.tradingsymbol = pos.tradingsymbol
                              /\ o.exchange = pos.exchange
                              /\ pos.quantity > 0 => o.transaction_type = "SELL" /\ o.quantity = pos.quantity
                              /\ pos.quantity < 0 => o.transaction_type = "BUY" /\ o.quantity = 0 - pos.quantity
                    /\ \A j \in 1..(Len(live.orders) - 1) : live.orders[j].pos < live.orders[j + 1].pos

C33_Witness ==
    /\ live.op = "square_off"
    /\ live.access_token # Nil
    /\ Len(live.fetches) = 1
    /\ live.fetches[1].net = <<NetPosition("INFY", "MIS", 3), NetPosition("TCS", "MIS", 0 - 2)>>
    /\ Len(live.orders) = 2
    /\ live.orders[1].answer = "raised"
    /\ live.orders[1].transaction_type = "SELL"
    /\ live.orders[2].answer = "order_id"
    /\ live.orders[2].transaction_type = "BUY"
    /\ live.orders[2].quantity = 2

(* C34: the tracking loop of run_live_trading_flow makes at most           *)
(* max_tracking_iterations (20) passes and position fetches; once it has   *)
(* ended - at the cap, by Ctrl+C or by an exception in a pass - the        *)
(* square-off routine has run exactly once when the flow finishes, the     *)
(* broker having an access token, and not before the loop ended; after a   *)
(* failed login the square-off routine never runs.                        *)
C34_TrackingBoundedThenSquareOff ==
    /\ live.op \in {"flow_start", "logged_in", "tracking", "tracked", "finished", "exited", "crashed"}
       => /\ live.iterations <= max_tracking_iterations
          /\ live.iterations <= 20
          /\ live.tracking_fetches <= live.iterations
          /\ live.ended = "cap" => live.iterations = max_tracking_iterations
                                   /\ live.tracking_fetches = max_tracking_iterations
          /\ live.op \in {"flow_start", "logged_in", "tracking", "tracked", "exited", "crashed"}
             => live.square_offs = 0
          /\ live.op = "tracked"
             => live.ended \in {"cap", "KeyboardInterrupt", "Exception"} /\ live.login_ret # Nil
          /\ (live.op = "finished" /\ live.ended # "no")
             => /\ live.square_offs = IF live.access_token # Nil THEN 1 ELSE 0
                /\ live.access_token # Nil
                /\ Len(live.fetches) = 1
          /\ live.login_ret = Nil
             => /\ live.square_offs = 0 /\ live.orders = <<>> /\ live.ended = "no"
                /\ live.iterations = 0

C34_Witness ==
    /\ live.op = "finished"
    /\ live.ended = "cap"
    /\ live.iterations = 20
    /\ live.tracking_fetches = 20
    /\ live.square_offs = 1
    /\ Len(live.orders) = 1

(* C35: the ClosedTrade list of run() is in chronological order and its    *)
(* trades do not overlap: no trade exits before it was entered, the exit   *)
(* times do not decrease along the list, no trade is entered before the    *)
(* trade before it has exited.                                            *)
C35_TradesChronological ==
    /\ \A k \in 1..Len(trades) : trades[k].entry_time <= trades[k].exit_time
    /\ \A k \in 1..(Len(trades) - 1) :
          /\ trades[k].exit_time <= trades[k + 1].exit_time
          /\ trades[k].exit_time <= trades[k + 1].entry_time

(* C36: accounting identity.  current_capital = initial_capital + the sum  *)
(* of the closed trades' pnl - the entry brokerage of every executed BUY   *)
(* fill - avg_price * qty of the open position (0 when flat): it holds of  *)
(* the constructed engine, where no fill has been made, and every step     *)
(* keeps it - the step's BUY fill, if it makes one, adds the brokerage on  *)
(* the fill's value to the brokerage paid, and nothing else changes it.    *)
OpenValue(pos) == IF pos = <<>> THEN 0 ELSE TradeValue(pos[1].avg_price, pos[1].qty)

EntryBrokeragePaid(capital, closed, pos) ==
    cfg.initial_capital + SumPnl(closed) - OpenValue(pos) - capital

C36_AccountingIdentity ==
    /\ EntryBrokeragePaid(current_capital, trades, positions) = 0
    /\ [][LET held == IF last'.riskExit \/ Len(trades') > Len(trades)
                      THEN 0 ELSE OpenValue(positions)
              fill == OpenValue(positions') - held
          IN  EntryBrokeragePaid(current_capital', trades', positions')
                = EntryBrokeragePaid(current_capital, trades, positions)
                  + (IF fill > 0 THEN CalculateBrokerage(cfg, fill) ELSE 0)]_vars

C36_Witness ==
    /\ Len(trades) = 1
    /\ trades[1].pnl # 0
    /\ positions # <<>>
    /\ cfg.brokerage_percent > 0
    /\ EntryBrokeragePaid(current_capital, trades, positions) > 0

(* C37: a position is not risk-checked against the bar on which it was     *)
(* opened, so over unique timestamps every ClosedTrade of run() exits      *)
(* strictly later than it was entered.                                     *)
C37_ExitStrictlyAfterEntry ==
    \A k \in 1..Len(trades) : trades[k].entry_time < trades[k].exit_time

(* C38: whenever UpstoxAPI.login() returns None the instance's             *)
(* access_token is None afterwards, so a guarded operation called next     *)
(* refuses to run and makes no SDK call.                                   *)
C38_FailedLoginLeavesNoToken ==
    (upstox.op = "login" /\ upstox.ret = Nil) => upstox.access_token = Nil

(* C39: while a KiteConnectAPI's access_token is unset, each guarded       *)
(* operation (get_profile without force_fetch, get_margins, get_positions, *)
(* get_holdings, place_order, modify_order, cancel_order,                  *)
(* get_order_history, get_trades) returns None and makes no SDK call; and  *)
(* on an instance constructed without a token, access_token starts unset,  *)
(* a login or generate_session call that returns a token sets it to that   *)
(* token, and no other call changes it - so it is set only after such a    *)
(* call has succeeded and equals the token last returned.                  *)
GuardedOperationSet == { "get_profile", "place_order" } \cup { g[1] : g \in GuardedOps }

C39_GuardedUntilLoggedIn ==
    [][kite'.n = kite.n + 1
       => /\ (kite.access_token = Nil /\ kite'.op \in GuardedOperationSet)
             => /\ kite'.ret = Nil
                /\ kite'.raised = Nil
                /\ kite'.sdk = <<>>
          /\ kite'.op = "init" => kite'.access_token = kite'.constructed_with
          /\ kite'.op \in GuardedOperationSet => kite'.access_token = kite.access_token
          /\ (kite'.op \in {"login", "generate_session"} /\ kite.constructed_with = Nil)
             => /\ kite'.constructed_with = Nil
                /\ kite'.access_token = IF kite'.ret # Nil THEN kite'.ret
                                        ELSE kite.access_token]_vars

C39_Witness ==
    /\ kite.constructed_with = Nil
    /\ kite.access_token = Nil
    /\ kite.n = 3
    /\ kite.op = "place_order"
    /\ kite.ret = Nil
    /\ kite.sdk = <<>>
    /\ kite.emitted = <<[action |-> "PLACE_ORDER", status |-> "FAILURE", user |-> Nil]>>
    /\ kite.file.kind = "json"
    /\ kite.file.data.access_token # Nil

(* C40: session round trip.  A token file that holds what a successful     *)
(* generate_session persisted (a dictionary with access_token, with or     *)
(* without user_id) is accepted by _load_access_token_data: login() on a   *)
(* fresh instance, the profile fetch succeeding, returns the stored        *)
(* access token and does not call the SDK's generate_session.              *)
C40_SessionRoundTrip ==
    [][(/\ kite.op = "init"
        /\ kite.constructed_with = Nil
        /\ kite.file.kind = "json"
        /\ kite.file.data.access_token # Nil
        /\ kite'.op = "login"
        /\ kite'.n = kite.n + 1
        /\ \A i \in 1..Len(kite'.sdk) :
              kite'.sdk[i].fn = "profile" => kite'.sdk[i].answer.kind = "ok")
       => /\ kite'.ret = kite.file.data.access_token
          /\ \A i \in 1..Len(kite'.sdk) : kite'.sdk[i].fn # "generate_session"]_vars

====
